---- MODULE Spec2Model ----
(***************************************************************************)
(* Retrieval / answer-assembly pipeline of the document Q&A backend:       *)
(* backend/services/vector_store.py, backend/services/rag.py and the /ask  *)
(* handler of backend/main.py.                                             *)
(*                                                                         *)
(* Strings whose characters matter (document ids) are sequences of         *)
(* one-character strings.  Queries, chunk contents, HTML and generated     *)
(* answers are sequences of lexical tokens (words, tags, markers).         *)
(***************************************************************************)
EXTENDS Integers, Sequences, FiniteSets, TLC

VARIABLES
    index,      \* the Chroma collection: chunk id -> stored document
    cache,      \* _vectordb_cache entry of the default key: 0 = absent, else a handle id
    handles,    \* the handle constructed last (0: none yet)
    pc,         \* position of the request being served
    req,        \* the request being served
    calls,      \* VectorIndex calls issued by the search section of the request
    docs,       \* answer_question: raw_docs / docs
    tables,     \* answer_question: table_map, table_cat_map, found_table_ids
    answer,     \* answer_question: answer_text
    gens,       \* generation providers invoked while serving the request, with
                \* what each did
    result,     \* what answer_question returned (or raised)
    response,   \* what the entry point (/ask or answer_question) gave its caller
    threads,    \* concurrent callers of get_vector_store / reset_vector_store_cache
    building,   \* Chroma clients under construction, by thread
    qna_cache,  \* _QNA_CACHE and what the last _load_qna_pairs_for_doc returned
    gate,       \* answer_question: the re-ranked docs and the Q&A match looked for
    bundle,     \* the DocumentBundle of the document under ingested/
    build,      \* what the last run of the chunk builders produced
    intents,    \* _select_primary_intent: the list of tags it is given
    primary,    \* _select_primary_intent: the tag it returned
    doc_key     \* a document id, what is stored for it and what is searched for it

vars == <<index, cache, handles, pc, req, calls, docs, tables, answer, gens, result,
          response, threads, building, qna_cache, gate, bundle, build, intents, primary,
          doc_key>>

\* the variables of the chunk builders and of the document ids, which no request
\* touches
builders == <<bundle, build, intents, primary, doc_key>>

(***************************************************************************)
(* Bounds of the model                                                     *)
(***************************************************************************)
MaxChunks == 2      \* chunks held by the index
MaxSearchIds == 2   \* length of the doc_ids list of a direct search_similar call
MaxHandles == 2     \* distinct Chroma client handles told apart

None == "None"

\* the values of the variables that a specification leaves untouched
NoQna == [cache |-> << >>, returned |-> << >>]
\* no document id is looked at
NoDocKey == [raw |-> << >>, stored |-> << >>, entry |-> "", filter |-> << >>]
\* no request has reached the re-ranking yet
NoGate == [raw_docs |-> << >>, reranker |-> "", ranked |-> << >>, qna |-> << >>]
NoBundle == [texts |-> << >>, tables |-> << >>, images |-> << >>]
NoBuild ==
    [runs |-> 0, of |-> NoBundle, groups |-> << >>, chunks |-> << >>, indexed |-> FALSE,
     before |-> {}, prior |-> << >>]

(***************************************************************************)
(* Generic sequence helpers                                                *)
(***************************************************************************)
RECURSIVE SelectSeqBy(_, _)
SelectSeqBy(s, S) ==
    IF s = << >> THEN << >>
    ELSE IF Head(s) \in S THEN <<Head(s)>> \o SelectSeqBy(Tail(s), S)
         ELSE SelectSeqBy(Tail(s), S)

Prefix(s, n) == IF Len(s) <= n THEN s ELSE SubSeq(s, 1, n)

Range(s) == {s[i] : i \in 1..Len(s)}

Max(a, b) == IF a >= b THEN a ELSE b

(***************************************************************************)
(* Document-id canonicalisation                                            *)
(***************************************************************************)
\* str.lower() on the characters of the model's alphabet
LowerChar(c) ==
    CASE c = "A" -> "a"
      [] c = "B" -> "b"
      [] OTHER -> c

Lower(s) == [i \in 1..Len(s) |-> LowerChar(s[i])]

IsSpace(c) == c = " "

RECURSIVE LStrip(_)
LStrip(s) == IF s # << >> /\ IsSpace(Head(s)) THEN LStrip(Tail(s)) ELSE s

RECURSIVE RStrip(_)
RStrip(s) ==
    IF s # << >> /\ IsSpace(s[Len(s)]) THEN RStrip(SubSeq(s, 1, Len(s) - 1)) ELSE s

\* str.strip()
Strip(s) == RStrip(LStrip(s))

\* re.sub(r'\s+', '_', s): every maximal run of whitespace becomes one underscore
RECURSIVE SpacesToUnderscore(_)
SpacesToUnderscore(s) ==
    IF s = << >> THEN << >>
    ELSE IF IsSpace(Head(s)) THEN <<"_">> \o SpacesToUnderscore(LStrip(s))
         ELSE <<Head(s)>> \o SpacesToUnderscore(Tail(s))

\* the characters [a-z0-9_\u0E00-\u0E7F-] keeps
IdChars == {"a", "b", "c", "d", "k", "n", "o", "u", "w", "0", "_", "-"}

\* re.sub(r'[^a-z0-9_\u0E00-\u0E7F-]', '', s)
DropForeign(s) == SelectSeqBy(s, IdChars)

\* vector_store.sanitize_doc_id and rag.sanitize_doc_id (the same text)
sanitize_doc_id(doc_id) ==
    IF doc_id = << >> THEN << >>
    ELSE DropForeign(SpacesToUnderscore(Strip(Lower(doc_id))))

\* _normalize_id without the lowering
normalize_id_keeping_case(raw_id) ==
    IF raw_id = << >> THEN <<"u", "n", "k", "n", "o", "w", "n", "_", "d", "o", "c">>
    ELSE DropForeign(SpacesToUnderscore(Strip(raw_id)))

\* main._normalize_id
normalize_id(raw_id) ==
    IF raw_id = << >> THEN <<"u", "n", "k", "n", "o", "w", "n", "_", "d", "o", "c">>
    ELSE DropForeign(SpacesToUnderscore(Lower(Strip(raw_id))))

(***************************************************************************)
(* Chunks and the vector index                                             *)
(***************************************************************************)
\* Optional values are sequences of length 0 (None) or 1.
Absent == << >>
Some(x) == <<x>>

\* Chunks the ingestion hands to index_chunks (chunking.Chunk with its metadata).
\* doc_id is the id as the builder wrote it; html / md are the table metadata
\* html_content / markdown_content.
TextChunk(cid, doc, words) ==
    [cid |-> cid, doc_id |-> doc, source |-> "text", doc_type |-> "manual", page |-> "1",
     content |-> words, html |-> << >>, md |-> << >>, category |-> "", role |-> ""]

TableChunk(cid, doc, words, html, md, cat, role) ==
    [cid |-> cid, doc_id |-> doc, source |-> "table", doc_type |-> "report", page |-> "2",
     content |-> words, html |-> html, md |-> md, category |-> cat, role |-> role]

ChunkCatalog ==
    { TextChunk("c1", <<"A">>, <<"revenue", " ", "report">>),
      TableChunk("c2", <<"A">>, <<"revenue", " ", "table">>,
                 <<"<table>", "<script>", "</script>", " onclick=", "javascript:">>,
                 <<"md">>, "revenue", ""),
      TableChunk("c3", <<"b", " ">>, <<"cost">>,
                 << >>, <<"<script>", "</script>">>, "", "summary") }

\* similarity order of the stored chunks for a query (fixed by the embeddings)
CatalogOrder == <<"c4", "c1", "c2", "c3">>

\* index_chunks: the metadata written for a chunk (doc_id canonicalised)
StoredDoc(c) == [c EXCEPT !.doc_id = sanitize_doc_id(c.doc_id)]

\* Chroma add_texts with ids: upsert by chunk id
Upsert(idx, cs) == {d \in idx : d.cid \notin {c.cid : c \in cs}} \cup {StoredDoc(c) : c \in cs}

RECURSIVE OrderBy(_, _)
OrderBy(order, S) ==
    IF order = << >> THEN << >>
    ELSE LET here == {d \in S : d.cid = Head(order)}
         IN  (IF here = {} THEN << >> ELSE <<CHOOSE d \in here : TRUE>>)
             \o OrderBy(Tail(order), S)

\* A native Chroma `where` filter: equality on the fields that are present.
NoWhere == [doc_id |-> Absent, source |-> Absent, doc_type |-> Absent]

WhereMatches(w, d) ==
    /\ (w.doc_id # Absent => d.doc_id = w.doc_id[1])
    /\ (w.source # Absent => d.source = w.source[1])
    /\ (w.doc_type # Absent => d.doc_type = w.doc_type[1])

\* Chroma similarity_search(query, k, filter)
similarity_search(idx, k, w) ==
    Prefix(OrderBy(CatalogOrder, {d \in idx : WhereMatches(w, d)}), k)

(***************************************************************************)
(* The cached index client                                                 *)
(***************************************************************************)
\* the handle a construction yields: never the one constructed before it
FreshHandle(last) == (last % MaxHandles) + 1

\* get_vector_store, run without interruption.  init = "fail": both attempts to
\* construct the Chroma client raise, so HTTPException(500) is raised.
get_vector_store(c, last, reload, force_recreate, init) ==
    LET should_reload == force_recreate \/ reload
        c1 == IF should_reload /\ c # 0 THEN 0 ELSE c
    IN  IF ~force_recreate /\ c1 # 0
        THEN [ok |-> TRUE, handle |-> c1, cache |-> c1, handles |-> last, note |-> "hit"]
        ELSE IF init = "ok"
             THEN [ok |-> TRUE, handle |-> FreshHandle(last), cache |-> FreshHandle(last),
                   handles |-> FreshHandle(last), note |-> "built"]
             ELSE [ok |-> FALSE, handle |-> 0, cache |-> c1, handles |-> last,
                   note |-> "failed"]

\* reset_vector_store_cache
reset_vector_store_cache(c) == 0

(***************************************************************************)
(* Queries: sequences of word tokens, " " standing for whitespace          *)
(***************************************************************************)
\* `not query or not query.strip()`
IsBlank(query) == query = << >> \/ Strip(query) = << >>

\* str.split(): the words of a string
Words(text) == SelectSeqBy(text, Range(text) \ {" "})

(***************************************************************************)
(* vector_store.search_similar                                             *)
(***************************************************************************)
\* [f(d) for d in ids if d]
RECURSIVE SanitizeNonEmpty(_)
SanitizeNonEmpty(ids) ==
    IF ids = << >> THEN << >>
    ELSE (IF Head(ids) # << >> THEN <<sanitize_doc_id(Head(ids))>> ELSE << >>)
         \o SanitizeNonEmpty(Tail(ids))

\* _python_filter_documents: filtering in application code
python_filter_documents(raw_docs, doc_ids, sources, doc_types) ==
    LET sanitized_doc_ids == {sanitize_doc_id(doc_ids[i]) : i \in 1..Len(doc_ids)}
        Keep(d) ==
            /\ (sanitized_doc_ids # {} =>
                    /\ d.doc_id # << >>
                    /\ sanitize_doc_id(d.doc_id) \in sanitized_doc_ids)
            /\ (sources # << >> => d.source # "" /\ d.source \in Range(sources))
            /\ (doc_types # << >> => d.doc_type # "" /\ d.doc_type \in Range(doc_types))
    IN  SelectSeq(raw_docs, Keep)

\* the `where_filter` search_similar builds; none = TRUE stands for where_filter = None
where_filter(sanitized_doc_ids, sources, doc_types) ==
    LET w0 == [none |-> FALSE, w |-> NoWhere]
        w1 == IF sanitized_doc_ids # << >>
              THEN IF Len(sanitized_doc_ids) = 1
                   THEN [w0 EXCEPT !.w.doc_id = Some(sanitized_doc_ids[1])]
                   ELSE [w0 EXCEPT !.none = TRUE]
              ELSE w0
        w2 == IF sources # << >>
              THEN IF Len(sources) = 1
                   THEN IF ~w1.none THEN [w1 EXCEPT !.w.source = Some(sources[1])] ELSE w1
                   ELSE [w1 EXCEPT !.none = TRUE]
              ELSE w1
        w3 == IF doc_types # << >>
              THEN IF Len(doc_types) = 1
                   THEN IF ~w2.none THEN [w2 EXCEPT !.w.doc_type = Some(doc_types[1])] ELSE w2
                   ELSE [w2 EXCEPT !.none = TRUE]
              ELSE w2
    IN  w3

\* one record per call on the VectorIndex: a handle lookup or a similarity search
GetCall(reload, note) ==
    [op |-> "get", where |-> NoWhere, native |-> FALSE, reload |-> reload, k |-> 0,
     note |-> note]
SearchCall(w, native, k, note) ==
    [op |-> "search", where |-> w, native |-> native, reload |-> FALSE, k |-> k,
     note |-> note]

Outcome(raised, ds, cs, c, last) ==
    [raised |-> raised, docs |-> ds, calls |-> cs, cache |-> c, handles |-> last]

\* the `except` clause of search_similar, entered with the calls made so far.
\* kind = "fault": the error carries a recognised storage-fault signature.
search_except(idx, g, kind, sofar, k, doc_ids, sources, doc_types, env) ==
    IF kind = "fault"
    THEN LET r == get_vector_store(g.cache, g.handles, TRUE, FALSE, env.init2)
             cs1 == Append(sofar, GetCall(TRUE, r.note))
         IN  IF ~r.ok
             THEN Outcome("HTTP500", << >>, cs1, r.cache, r.handles)
             ELSE IF env.s3 = "ok"
                  THEN Outcome("", Prefix(python_filter_documents(
                                     similarity_search(idx, k * 10, NoWhere),
                                     doc_ids, sources, doc_types), k),
                               Append(cs1, SearchCall(NoWhere, FALSE, k * 10, "ok")),
                               r.cache, r.handles)
                  ELSE Outcome("", << >>,
                               Append(cs1, SearchCall(NoWhere, FALSE, k * 10, env.s3)),
                               r.cache, r.handles)
    ELSE Outcome("error", << >>, sofar, g.cache, g.handles)

\* the Python-filter branch of the `try` block of search_similar
search_python(idx, g, sofar, k, doc_ids, sources, doc_types, env) ==
    LET fetch_size == Max(k * 10, 50)
        cs == Append(sofar, SearchCall(NoWhere, FALSE, fetch_size, env.s2))
    IN  IF env.s2 = "ok"
        THEN Outcome("", Prefix(python_filter_documents(
                           similarity_search(idx, fetch_size, NoWhere),
                           doc_ids, sources, doc_types), k),
                     cs, g.cache, g.handles)
        ELSE search_except(idx, g, env.s2, cs, k, doc_ids, sources, doc_types, env)

\* search_similar(query, k, doc_ids, sources, doc_types) on index idx with the
\* cache entry c; env fixes what the storage engine does on each call.
search_similar(idx, c, last, query, k, doc_ids, sources, doc_types, env) ==
    IF IsBlank(query)
    THEN Outcome("HTTP400", << >>, << >>, c, last)
    ELSE
    LET g == get_vector_store(c, last, FALSE, FALSE, env.init1)
        cs0 == <<GetCall(FALSE, g.note)>>
        sanitized_doc_ids == SanitizeNonEmpty(doc_ids)
        wf == where_filter(sanitized_doc_ids, sources, doc_types)
        use_native_filter == ~wf.none /\ wf.w # NoWhere
        cs1 == Append(cs0, SearchCall(wf.w, TRUE, k, env.s1))
        native == similarity_search(idx, k, wf.w)
    IN  IF ~g.ok
        THEN Outcome("HTTP500", << >>, cs0, g.cache, g.handles)
        ELSE IF use_native_filter
             THEN IF env.s1 = "ok"
                  THEN IF native # << >>
                       THEN Outcome("", native, cs1, g.cache, g.handles)
                       ELSE search_python(idx, g, cs1, k, doc_ids, sources, doc_types, env)
                  ELSE search_except(idx, g, env.s1, cs1, k, doc_ids, sources, doc_types, env)
             ELSE search_python(idx, g, cs0, k, doc_ids, sources, doc_types, env)

\* what the storage engine may do during one search_similar call
InitOutcomes == {"ok", "fail"}
SearchOutcomes == {"ok", "fault", "error"}
RetryOutcomes == {"ok", "fault"}
SearchEnvs ==
    { e \in [init1 : InitOutcomes, s1 : SearchOutcomes, s2 : SearchOutcomes,
             init2 : InitOutcomes, s3 : RetryOutcomes] :
        \* outcomes of calls that are never made are left at "ok"
        /\ (e.init1 = "fail" => e.s1 = "ok" /\ e.s2 = "ok")
        /\ (e.s1 # "fault" /\ e.s2 # "fault" => e.init2 = "ok")
        /\ (e.init2 = "fail" \/ (e.s1 # "fault" /\ e.s2 # "fault") => e.s3 = "ok") }

(***************************************************************************)
(* rag.py: scoring, re-ranking and the relevance gate                      *)
(* Scores are in hundredths: 25 stands for 0.25.                           *)
(***************************************************************************)
MIN_SCORE_THRESHOLD == 25
MIN_KEYWORD_OVERLAP == 1
HIGH_SCORE == 75            \* the 0.75 of _filter_relevant_docs and of the Q&A match
DUMMY_SCORE == 30           \* the 0.3 _rerank_documents assigns without a cross-encoder
MIN_QUERY_LEN == 10         \* `len(query) > 10`

\* raw cross-encoder outputs of the model, and normalize_score (the logistic
\* function) on them, rounded to hundredths
RawScores == {-3, -1, 2}
normalize_score(raw) ==
    CASE raw = -3 -> 5
      [] raw = -1 -> 27
      [] raw = 0 -> 50
      [] raw = 2 -> 88
      [] OTHER -> 50

\* number of characters of a token
TokLen(w) ==
    CASE w = " " -> 1
      [] w \in {"cost", "show"} -> 4
      [] w \in {"hello", "table"} -> 5
      [] w = "manual" -> 6
      [] w \in {"revenue"} -> 7
      [] OTHER -> 6

RECURSIVE StrLen(_)
StrLen(text) == IF text = << >> THEN 0 ELSE TokLen(Head(text)) + StrLen(Tail(text))

\* `a in b` on strings: a occurs in b as a run of consecutive tokens
Contains(b, a) ==
    \E i \in 0..(Len(b) - Len(a)) : \A j \in 1..Len(a) : b[i + j] = a[j]

\* stable sort, largest key first (list.sort(key=..., reverse=True)), of a
\* sequence of records [k |-> key, v |-> value]
RECURSIVE InsertDesc(_, _)
InsertDesc(x, s) ==
    IF s = << >> THEN <<x>>
    ELSE IF Head(s).k >= x.k THEN <<Head(s)>> \o InsertDesc(x, Tail(s))
         ELSE <<x>> \o s

RECURSIVE SortPairsDesc(_)
SortPairsDesc(s) ==
    IF s = << >> THEN << >>
    ELSE InsertDesc(s[Len(s)], SortPairsDesc(SubSeq(s, 1, Len(s) - 1)))

SortDesc(s, key) ==
    LET sorted == SortPairsDesc([i \in 1..Len(s) |-> [k |-> s[i][key], v |-> s[i]]])
    IN  [i \in 1..Len(s) |-> sorted[i].v]

\* the keyword score _rerank_documents gives a document
keyword_score(query, content) ==
    LET terms == Words(Lower(query))
        c == Lower(content)
        hits == Cardinality({i \in 1..Len(terms) : terms[i] \in Range(c)})
    IN  hits + (IF Contains(c, Lower(query)) THEN 3 ELSE 0)


\* _rerank_documents without the confidence it assigns when no model scored
rerank_without_dummy(query, ds, top_k, reranker, raws) ==
    IF ds = << >> THEN << >>
    ELSE
    LET scored == [i \in 1..Len(ds) |->
                      [doc |-> ds[i], ai |-> 0, kw |-> keyword_score(query, ds[i].content)]]
        valid == {i \in 1..Len(ds) : Strip(ds[i].content) # << >>}
        byModel == [i \in 1..Len(ds) |->
                      IF i \in valid
                      THEN [scored[i] EXCEPT !.ai = normalize_score(raws[i])]
                      ELSE scored[i]]
    IN  IF reranker = "ok" /\ valid # {}
        THEN Prefix(SortDesc(byModel, "ai"), top_k)
        ELSE Prefix(SortDesc(scored, "kw"), top_k)

\* _rerank_documents.  reranker: "none" (no cross-encoder), "fail" (predict raises)
\* or "ok"; raws[i] is the raw score predict gives the i-th document.
rerank_documents(query, ds, top_k, reranker, raws) ==
    IF ds = << >> THEN << >>
    ELSE
    LET scored == [i \in 1..Len(ds) |->
                      [doc |-> ds[i], ai |-> 0, kw |-> keyword_score(query, ds[i].content)]]
        valid == {i \in 1..Len(ds) : Strip(ds[i].content) # << >>}
        byModel == [i \in 1..Len(ds) |->
                      IF i \in valid
                      THEN [scored[i] EXCEPT !.ai = normalize_score(raws[i])]
                      ELSE scored[i]]
        byKeyword == SortDesc(scored, "kw")
    IN  IF reranker = "ok" /\ valid # {}
        THEN Prefix(SortDesc(byModel, "ai"), top_k)
        ELSE Prefix([i \in 1..Len(ds) |->
                        IF byKeyword[i].ai = 0
                        THEN [byKeyword[i] EXCEPT !.ai = DUMMY_SCORE]
                        ELSE byKeyword[i]], top_k)

Stopwords == {"what", "is", "are", "the", "a", "an"}

\* _keyword_overlap_count
keyword_overlap_count(query, text) ==
    LET q_tokens == Range(Words(Lower(query))) \ Stopwords
        t_tokens == Range(Words(Lower(text)))
    IN  IF q_tokens = {} THEN 0 ELSE Cardinality(q_tokens \cap t_tokens)

\* the test of the confidence alone
passes_score_only(query, x, min_score) == ~(x.ai < min_score)

\* the test _filter_relevant_docs applies to one document
passes_gate(query, x, min_score) ==
    /\ ~(x.ai < min_score)
    /\ ~(/\ StrLen(query) > MIN_QUERY_LEN
         /\ keyword_overlap_count(query, x.doc.content) < MIN_KEYWORD_OVERLAP
         /\ x.ai < HIGH_SCORE)

\* _filter_relevant_docs
filter_relevant_docs(query, ds, min_score) ==
    LET Keep(x) == passes_gate(query, x, min_score)
    IN  SelectSeq(ds, Keep)

(***************************************************************************)
(* Answers: sequences of tokens.  TXT is plain text, TBL the marker        *)
(* [SHOW_TABLE:TBL_n], CAT the marker [SHOW_TABLE:CAT=c], DIV a <div>      *)
(* wrapping the table markup h, EXC a labelled excerpt of the content h.   *)
(***************************************************************************)
Txt(s) == [t |-> "TXT", s |-> s, h |-> << >>]
Tbl(n) == [t |-> "TBL", s |-> n, h |-> << >>]
Cat(c) == [t |-> "CAT", s |-> c, h |-> << >>]
Div(h) == [t |-> "DIV", s |-> "", h |-> h]
Exc(label, h) == [t |-> "EXC", s |-> label, h |-> h]

\* str(n) for the table counters of the model
NumStr(n) ==
    CASE n = 1 -> "1"
      [] n = 2 -> "2"
      [] n = 3 -> "3"
      [] OTHER -> "4"

CLARIFY == <<Txt("please type a question")>>
GENERAL == <<Txt("general question")>>
NOT_FOUND == <<Txt("no relevant information")>>
SEARCH_ERROR == <<Txt("search failed")>>
CONTEXT_ERROR == <<Txt("context build failed")>>
AI_ERROR == <<Txt("AI Error")>>

Payload(path, ans, srcs, intent, mode) ==
    [kind |-> "payload", path |-> path, answer |-> ans, sources |-> srcs,
     intent |-> intent, mode |-> mode]

Raised(path) ==
    [kind |-> "raised", path |-> path, answer |-> << >>, sources |-> << >>,
     intent |-> None, mode |-> None]

(***************************************************************************)
(* rag.py: HTML sanitizer, Q&A match, context, generation, reinjection     *)
(***************************************************************************)
\* re.sub(r"<script.*?>.*?</script>", "", html): each opening script tag is
\* removed together with everything up to the next closing tag; an opening tag
\* that is never closed matches nothing and stays
RECURSIVE DropScripts(_)
DropScripts(h) ==
    IF h = << >> THEN << >>
    ELSE IF Head(h) = "<script>" /\ \E i \in 2..Len(h) : h[i] = "</script>"
         THEN LET close == CHOOSE i \in 2..Len(h) :
                               /\ h[i] = "</script>"
                               /\ \A j \in 2..(i - 1) : h[j] # "</script>"
              IN  DropScripts(SubSeq(h, close + 1, Len(h)))
         ELSE <<Head(h)>> \o DropScripts(Tail(h))

\* re.sub(r" on\w+=", " data-blocked-event=", ...) and
\* re.sub(r"javascript:", "blocked:", ...)
BlockToken(x) ==
    CASE x = " onclick=" -> " data-blocked-event="
      [] x = "javascript:" -> "blocked:"
      [] OTHER -> x

\* rag._sanitize_html_content
sanitize_html_content(html) ==
    LET noScript == DropScripts(html)
    IN  [i \in 1..Len(noScript) |-> BlockToken(noScript[i])]

\* the markup answer_question stores for a table candidate (table_map value)
safe_html_of(d) ==
    LET safe_html == sanitize_html_content(d.html)
    IN  IF safe_html = << >>
        THEN <<"<pre>">> \o (IF d.md = << >> THEN <<"No content">> ELSE d.md) \o <<"</pre>">>
        ELSE safe_html

\* the table maps answer_question builds over the gated candidates:
\* map[n] is table_map[str(n)], cat is table_cat_map in insertion order
RECURSIVE build_tables(_, _)
build_tables(ds, acc) ==
    IF ds = << >> THEN acc
    ELSE LET d == Head(ds).doc
             html == safe_html_of(d)
             keys == {acc.cat[i].key : i \in 1..Len(acc.cat)}
             catKey == <<"cat", d.category>>
             roleKey == <<"role", d.role>>
             c1 == IF d.category # "" /\ catKey \notin keys
                   THEN Append(acc.cat, [key |-> catKey, html |-> html])
                   ELSE acc.cat
             keys1 == {c1[i].key : i \in 1..Len(c1)}
             c2 == IF d.role # "" /\ roleKey \notin keys1
                   THEN Append(c1, [key |-> roleKey, html |-> html])
                   ELSE c1
         IN  IF d.source = "table"
             THEN build_tables(Tail(ds),
                      [map |-> Append(acc.map, html), cat |-> c2,
                       found |-> Append(acc.found, NumStr(Len(acc.map) + 1))])
             ELSE build_tables(Tail(ds), acc)

NoTables == [map |-> << >>, cat |-> << >>, found |-> << >>]

\* table_cat_map lookup; the keys "cat:<c>" and "role:<r>" are pairs <<"cat", c>>
CatLookup(cat, key) ==
    LET hit == {i \in 1..Len(cat) : cat[i].key = key}
    IN  IF hit = {} THEN << >> ELSE <<cat[CHOOSE i \in hit : TRUE].html>>

\* replace_cat: a category marker resolved by category, then by role, else kept
replace_cat(tok, tb) ==
    IF tok.t # "CAT" THEN tok
    ELSE IF CatLookup(tb.cat, <<"cat", tok.s>>) # << >>
         THEN Div(CatLookup(tb.cat, <<"cat", tok.s>>)[1])
         ELSE IF CatLookup(tb.cat, <<"role", tok.s>>) # << >>
              THEN Div(CatLookup(tb.cat, <<"role", tok.s>>)[1])
              ELSE tok

\* a replacement that shows the first table for every reference code
replace_by_first(tok, tb) ==
    IF tok.t # "TBL" THEN tok
    ELSE IF tb.map # << >> THEN Div(tb.map[1]) ELSE tok

\* replace_match: a reference-code marker resolved by its code, else by the only
\* table when there is exactly one, else kept
replace_match(tok, tb) ==
    IF tok.t # "TBL" THEN tok
    ELSE IF \E n \in 1..Len(tb.map) : NumStr(n) = tok.s
         THEN Div(tb.map[CHOOSE n \in 1..Len(tb.map) : NumStr(n) = tok.s])
         ELSE IF Len(tb.map) = 1 THEN Div(tb.map[1]) ELSE tok

\* section 5 of answer_question: the regex replacement of the markers
reinject(answer_text, tb) ==
    IF (tb.map # << >> \/ tb.cat # << >>) /\ answer_text # << >>
    THEN [i \in 1..Len(answer_text) |->
             replace_match(replace_cat(answer_text[i], tb), tb)]
    ELSE answer_text

\* section 6 of answer_question: the sources of the payload
sources_of(ds) ==
    [i \in 1..Len(ds) |->
        [doc_id |-> ds[i].doc.doc_id, page |-> ds[i].doc.page,
         source |-> ds[i].doc.source, chunk_id |-> ds[i].doc.cid]]

\* _generate_fallback_answer: a header and one labelled excerpt for each of the
\* first four documents
generate_fallback_answer(ds) ==
    IF ds = << >> THEN <<Txt("no relevant information, AI unavailable")>>
    ELSE <<Txt("notice")>> \o
         [i \in 1..Len(Prefix(ds, 4)) |-> Exc(NumStr(i), ds[i].doc.content)]

\* the sorted doc ids _find_best_qna_answer_from_docs looks pairs up for
qna_doc_ids(ds) == {ds[i].doc.doc_id : i \in 1..Len(ds)} \ {<< >>}

\* the Q&A match with the threshold of the relevance gate
find_qna_answer_above_min(ds, best) ==
    IF qna_doc_ids(ds) = {} \/ best = << >> THEN << >>
    ELSE IF best[1].score >= MIN_SCORE_THRESHOLD
         THEN <<[answer |-> <<Txt("authored answer")>>,
                 sources |-> <<[doc_id |-> best[1].doc_id, page |-> "?",
                                source |-> "Q&A Match", chunk_id |-> ""]>>]>>
         ELSE << >>

\* _find_best_qna_answer_from_docs.  best is absent when the candidate documents
\* hold no Q&A pair, else the best-scoring pair [doc_id, score].
find_best_qna_answer(ds, best) ==
    IF qna_doc_ids(ds) = {} \/ best = << >> THEN << >>
    ELSE IF best[1].score >= HIGH_SCORE
         THEN <<[answer |-> <<Txt("authored answer")>>,
                 sources |-> <<[doc_id |-> best[1].doc_id, page |-> "?",
                                source |-> "Q&A Match", chunk_id |-> ""]>>]>>
         ELSE << >>

\* rag._detect_general_intent
GeneralKeywords == {<<"hello">>, <<"hi">>}
detect_general_intent(query) == Strip(Lower(query)) \in GeneralKeywords

\* the intent answer_question derives from mode and query
TableCues == {"table", "list"}
select_intent(query, mode) ==
    IF mode = "auto"
    THEN IF Range(Lower(query)) \cap TableCues # {} THEN "table" ELSE "text"
    ELSE mode

(***************************************************************************)
(* main.py: the /ask handler around answer_question                        *)
(***************************************************************************)
\* [_normalize_id(did) for did in req.doc_ids if did]
RECURSIVE NormalizeNonEmpty(_)
NormalizeNonEmpty(ids) ==
    IF ids = << >> THEN << >>
    ELSE (IF Head(ids) # << >> THEN <<normalize_id(Head(ids))>> ELSE << >>)
         \o NormalizeNonEmpty(Tail(ids))

\* the doc_ids answer_question receives (None and [] are both falsy: << >>)
aq_doc_ids(r) == IF r.entry = "ask" THEN NormalizeNonEmpty(r.doc_ids) ELSE r.doc_ids

\* the doc_ids answer_question hands to search_similar
aq_sanitized_doc_ids(doc_ids) == SanitizeNonEmpty(doc_ids)

\* the post-processing of /ask: every [SHOW_TABLE:CAT=...] tag left in the answer
\* is looked up in the sources; a source carries doc_id, page, source and chunk_id
\* only, so no html is ever found and the tag is removed
ask_postprocess(answer_text) ==
    LET Keep(tok) == tok.t # "CAT"
    IN  SelectSeq(answer_text, Keep)

\* AskResponse(**result): answer, intent and mode must be strings
ask_response(r) ==
    IF r.kind = "raised" THEN r
    ELSE IF r.intent = None \/ r.mode = None
         THEN Raised("validation")
         ELSE [r EXCEPT !.answer = ask_postprocess(r.answer)]

\* what the caller of the entry point gets for answer_question's result r
deliver(entry, r) == IF entry = "ask" THEN ask_response(r) ELSE r

\* f"{mode}+suffix"
ModeTag(mode, suffix) == <<mode, suffix>>
PlainMode(mode) == <<mode, "">>

\* the search section of answer_question without its `except Exception` clause
search_raises(intent, mode) == Raised("search_error")

\* the `except Exception` clause around the search section of answer_question
search_failed(intent, mode) ==
    Payload("search_error", SEARCH_ERROR, << >>, intent, PlainMode(mode))

\* the `except Exception` clause around the context section of answer_question
context_failed(intent, mode) ==
    Payload("context_error", CONTEXT_ERROR, << >>, intent, PlainMode(mode))

\* plan C of answer_question when no provider produced text
no_answer(ds, tb, intent, mode) ==
    IF mode = "table" /\ tb.found # << >>
    THEN Payload("normal", << >>, sources_of(ds), intent, ModeTag(mode, "+qna_llm"))
    ELSE Payload("fallback", generate_fallback_answer(ds), << >>, intent,
                 ModeTag(mode, "+error"))

(***************************************************************************)
(* Requests                                                                *)
(***************************************************************************)
Queries ==
    { << >>, <<" ">>, <<"hello">>, <<"revenue">>,
      <<"show", " ", "revenue", " ", "table">> }

\* doc_ids lists of /ask and answer_question requests: none, "", "a ", "!"
ReqDocIdLists == { << >>, << << >> >>, << <<"a", " ">> >>, << <<"!">> >> }

Modes == {"auto", "text", "table", "both"}
TopKs == {5}
Entries == {"ask", "answer_question"}

NoReq == [entry |-> "", query |-> << >>, doc_ids |-> << >>, top_k |-> 0, mode |-> "",
          sources |-> << >>, doc_types |-> << >>]
\* no caller thread is modelled in the single-threaded specifications
NoThreads == << >>
NoResult == [kind |-> "none", path |-> "", answer |-> << >>, sources |-> << >>,
             intent |-> None, mode |-> None]

\* what a generation provider may do: be unavailable, raise, or return text
GENERATED ==
    <<Txt("ans"), Tbl("1"), Tbl("2"), Tbl("3"), Cat("revenue"), Cat("summary")>>
LLMTexts == { << >>, GENERATED, AI_ERROR }
ProviderOutcomes ==
    {[kind |-> "none", text |-> << >>], [kind |-> "raise", text |-> << >>]}
    \cup {[kind |-> "text", text |-> t] : t \in LLMTexts}

\* the cross-encoder: not loaded, raising in predict, or scoring
Rerankers == {"none", "fail", "ok"}

\* what the Q&A lookup may find for the candidates ds: an error while loading the
\* pairs, no pair at all, or a best pair of one of the documents with its score
QnaEnvs(ds) ==
    IF qna_doc_ids(ds) = {} THEN {[raises |-> FALSE, best |-> << >>]}
    ELSE {[raises |-> r, best |-> << >>] : r \in BOOLEAN}
         \cup {[raises |-> FALSE,
                best |-> <<[doc_id |-> d, score |-> normalize_score(raw)]>>] :
                  d \in qna_doc_ids(ds), raw \in RawScores}

(***************************************************************************)
(* The request pipeline                                                    *)
(***************************************************************************)
Init ==
    /\ index = {}
    /\ cache = 0
    /\ handles = 0
    /\ pc = "idle"
    /\ req = NoReq
    /\ calls = << >>
    /\ docs = << >>
    /\ tables = NoTables
    /\ answer = << >>
    /\ gens = << >>
    /\ result = NoResult
    /\ response = NoResult
    /\ threads = NoThreads
    /\ building = {}
    /\ qna_cache = NoQna
    /\ gate = NoGate
    /\ bundle = NoBundle
    /\ build = NoBuild
    /\ intents = << >>
    /\ primary = None
    /\ doc_key = NoDocKey

\* /upload: the ingestion subprocess (backend.scripts.ingest_doc) writes the chunks
\* with index_chunks; the handler then resets the client cache, unless the
\* subprocess exited with an error after its write
UploadPdf(cs, outcome) ==
    /\ pc = "idle"
    /\ cs # {}
    /\ Cardinality(Upsert(index, cs)) <= MaxChunks
    /\ index' = Upsert(index, cs)
    /\ cache' = IF outcome = "ok" THEN reset_vector_store_cache(cache) ELSE cache
    /\ UNCHANGED <<handles, pc, req, calls, docs, tables, answer, gens, result,
                   response, threads, building, qna_cache,
                   builders, gate>>

\* a request arrives at /ask or answer_question is called
Submit(entry, query, doc_ids, top_k, mode) ==
    /\ pc = "idle"
    /\ req' = [NoReq EXCEPT !.entry = entry, !.query = query, !.doc_ids = doc_ids,
                            !.top_k = top_k, !.mode = mode]
    /\ pc' = "retrieve"
    /\ UNCHANGED <<index, cache, handles, calls, docs, tables, answer, gens, result,
                   response, threads, building, qna_cache,
                   builders, gate>>

\* answer_question returns r: the entry point hands its caller deliver(r)
Return(r) ==
    /\ result' = r
    /\ response' = deliver(req.entry, r)
    /\ pc' = "done"

\* answer_question up to the search: input check, general-intent guard, mode
\* selection, search_similar
Retrieve(env) ==
    /\ pc = "retrieve"
    /\ LET intent == select_intent(req.query, req.mode)
           ids == aq_doc_ids(req)
           sanitized == IF ids # << >> THEN aq_sanitized_doc_ids(ids) ELSE << >>
       IN  IF IsBlank(req.query)
           THEN /\ Return(Payload("empty", CLARIFY, << >>, None, PlainMode(req.mode)))
                /\ UNCHANGED <<cache, handles, calls, docs>>
           ELSE IF detect_general_intent(req.query)
           THEN /\ Return(Payload("general", GENERAL, << >>, "general",
                                  PlainMode(req.mode)))
                /\ UNCHANGED <<cache, handles, calls, docs>>
           ELSE \E o \in {search_similar(index, cache, handles, req.query,
                                         req.top_k * 3, sanitized, << >>, << >>, env)} :
                   /\ cache' = o.cache
                   /\ handles' = o.handles
                   /\ calls' = o.calls
                   /\ IF o.raised # ""
                      THEN /\ Return(search_failed(intent, req.mode))
                           /\ docs' = << >>
                      ELSE /\ docs' = o.docs
                           /\ pc' = "rerank"
                           /\ UNCHANGED <<result, response>>
    /\ UNCHANGED <<index, req, tables, answer, gens, threads, building, qna_cache,
                   builders, gate>>

\* answer_question: re-ranking, the relevance gate and the Q&A shortcut.  The
\* search section ends here: its call log is dropped when the request goes on.
Rerank(reranker, raws) ==
    /\ pc = "rerank"
    \* predict is not reached without a working cross-encoder: raws is left at -3
    /\ (reranker # "ok" => \A i \in 1..Len(docs) : raws[i] = -3)
    /\ LET intent == select_intent(req.query, req.mode)
           ranked == rerank_documents(req.query, docs, req.top_k, reranker, raws)
           relevant == filter_relevant_docs(req.query, ranked, MIN_SCORE_THRESHOLD)
       IN  IF relevant # << >>
           THEN /\ docs' = relevant
                /\ gate' = [raw_docs |-> docs, reranker |-> reranker, ranked |-> ranked,
                            qna |-> << >>]
                /\ pc' = "context"
                /\ calls' = << >>
                /\ UNCHANGED <<result, response>>
           ELSE /\ docs' = ranked
                /\ UNCHANGED calls
                /\ \E qna \in QnaEnvs(ranked) :
                      LET match == find_best_qna_answer(ranked, qna.best)
                      IN  /\ gate' = [raw_docs |-> docs, reranker |-> reranker,
                                      ranked |-> ranked, qna |-> <<qna>>]
                          /\ Return(IF qna.raises
                                    THEN search_failed(intent, req.mode)
                                    ELSE IF match # << >>
                                         THEN Payload("qna", match[1].answer,
                                                      match[1].sources, "qna",
                                                      ModeTag(req.mode, "+qna"))
                                         ELSE Payload("not_found", NOT_FOUND, << >>,
                                                      intent, PlainMode(req.mode)))
    /\ UNCHANGED <<index, cache, handles, req, tables, answer, gens, threads, building, qna_cache,
                   builders>>

\* answer_question: the context and the table maps
BuildContext(ok) ==
    /\ pc = "context"
    /\ IF ok
       THEN /\ tables' = build_tables(docs, NoTables)
            /\ pc' = "generate"
            /\ UNCHANGED <<result, response>>
       ELSE /\ Return(context_failed(select_intent(req.query, req.mode), req.mode))
            /\ UNCHANGED tables
    /\ UNCHANGED <<index, cache, handles, req, calls, docs, answer, gens,
                   threads, building, qna_cache,
                   builders, gate>>

\* answer_question: the generation chain, the marker replacement and the sources
Generate(p, s) ==
    /\ pc = "generate"
    /\ LET intent == select_intent(req.query, req.mode)
           a1 == IF p.kind = "text" THEN p.text ELSE << >>
           planB == a1 = << >> \/ a1 = AI_ERROR
           a2 == IF planB /\ s.kind = "text" THEN s.text ELSE a1
       IN  /\ (~planB => s.kind = "none")
           /\ gens' = (IF p.kind # "none"
                       THEN <<[provider |-> "primary", kind |-> p.kind, text |-> p.text]>>
                       ELSE << >>)
                      \o (IF planB /\ s.kind # "none"
                          THEN <<[provider |-> "secondary", kind |-> s.kind,
                                  text |-> s.text]>>
                          ELSE << >>)
           /\ answer' = a2
           /\ Return(IF a2 = << >>
                     THEN no_answer(docs, tables, intent, req.mode)
                     ELSE Payload("normal", reinject(a2, tables), sources_of(docs),
                                  intent, ModeTag(req.mode, "+qna_llm")))
    /\ UNCHANGED <<index, cache, handles, req, calls, docs, tables, threads, building, qna_cache,
                   builders, gate>>

\* the response has been delivered
Respond ==
    /\ pc = "done"
    /\ pc' = "idle"
    /\ req' = NoReq
    /\ calls' = << >>
    /\ docs' = << >>
    /\ tables' = NoTables
    /\ answer' = << >>
    /\ gens' = << >>
    /\ result' = NoResult
    /\ response' = NoResult
    /\ gate' = NoGate
    /\ UNCHANGED <<index, cache, handles, threads, building, qna_cache,
                   builders>>

Next ==
    \/ \E cs \in SUBSET ChunkCatalog, outcome \in {"ok", "failed"} : UploadPdf(cs, outcome)
    \/ \E entry \in Entries, query \in Queries, doc_ids \in ReqDocIdLists,
          top_k \in TopKs, mode \in Modes : Submit(entry, query, doc_ids, top_k, mode)
    \/ \E env \in SearchEnvs : Retrieve(env)
    \/ \E reranker \in Rerankers, raws \in [1..Len(docs) -> RawScores] :
          Rerank(reranker, raws)
    \/ \E ok \in BOOLEAN : BuildContext(ok)
    \/ \E p \in ProviderOutcomes, s \in ProviderOutcomes : Generate(p, s)
    \/ Respond

Spec == Init /\ [][Next]_vars

(***************************************************************************)
(* Properties of the request pipeline (specification Spec)                 *)
(***************************************************************************)
\* the canonical forms of the document ids a request names
RequestedIds == {sanitize_doc_id(req.doc_ids[i]) : i \in 1..Len(req.doc_ids)}

\* the similarity searches issued on the VectorIndex so far
SearchCalls == {i \in 1..Len(calls) : calls[i].op = "search"}

\* the markup reinjected into the answer handed to the caller
Reinjected(r) == {i \in 1..Len(r.answer) : r.answer[i].t = "DIV"}

UnsafeMarkup == {"<script>", "</script>", " onclick=", "javascript:"}

\* C1: a request (through /ask or answer_question) with a non-empty doc_ids list
\* is answered from those documents only: no source of the response has a
\* canonical doc_id outside the canonical forms of the requested ids.
C1_SourcesWithinRequestedDocs ==
    (pc = "done" /\ req.doc_ids # << >> /\ response.kind = "payload") =>
        \A i \in 1..Len(response.sources) :
            sanitize_doc_id(response.sources[i].doc_id) \in RequestedIds

\* C2: a request filtered to one document that has no chunk in the index, served
\* without any storage fault, gets the not-found answer with empty sources, and
\* every similarity search issued for it was scoped to the requested document.
C2_NoChunksNoOtherScope ==
    (/\ pc = "done"
     /\ Len(req.doc_ids) = 1
     /\ sanitize_doc_id(req.doc_ids[1]) # << >>
     /\ \A d \in index : d.doc_id # sanitize_doc_id(req.doc_ids[1])
     /\ SearchCalls # {}
     /\ \A i \in 1..Len(calls) : calls[i].note \in {"hit", "built", "ok"}
     /\ result.path # "search_error")
    => /\ result.answer = NOT_FOUND
       /\ result.sources = << >>
       /\ \A i \in SearchCalls :
             calls[i].where.doc_id = Some(sanitize_doc_id(req.doc_ids[1]))

\* C4: an empty or whitespace-only query is answered with the fixed clarification
\* message and empty sources, and no call is made on the VectorIndex.
C4_BlankQueryClarified ==
    (pc = "done" /\ IsBlank(req.query)) =>
        /\ response.kind = "payload"
        /\ response.answer = CLARIFY
        /\ response.sources = << >>
        /\ calls = << >>

\* C5: when generation ran over at least one gated candidate and no provider
\* produced text, the returned answer is non-empty and holds a labelled excerpt
\* of the top candidate, in every mode.
C5_ExcerptFallbackInEveryMode ==
    (pc = "done" /\ result.path \in {"normal", "fallback"} /\ answer = << >>
     /\ docs # << >>)
    => /\ result.answer # << >>
       /\ \E i \in 1..Len(result.answer) :
             /\ result.answer[i].t = "EXC"
             /\ result.answer[i].h = docs[1].doc.content

\* C6: the answer handed to the caller holds no reinjection marker, neither by
\* reference code nor by category, whether or not the request had a table
\* candidate.
C6_NoMarkerLeft ==
    (pc = "done" /\ response.kind = "payload") =>
        \A i \in 1..Len(response.answer) : response.answer[i].t \notin {"TBL", "CAT"}

\* C7: markup substituted for a reinjection marker holds no script element, no
\* inline event handler and no javascript: URI, whatever the chunk stores.
C7_ReinjectedMarkupSafe ==
    (pc = "done" /\ response.kind = "payload") =>
        \A i \in Reinjected(response) :
            Range(response.answer[i].h) \cap UnsafeMarkup = {}

\* C8: every failure while serving a request (index unavailable, search error,
\* no relevant content, context-build failure, generation failure) ends in a
\* payload of answer_question, never in an exception: a failed index call gives
\* the search-failure payload, a failed context build its own payload, and
\* every payload carries its answer, sources, intent and the request's mode.
C8_FailuresBecomePayloads ==
    pc = "done" =>
        /\ result.kind = "payload"
        /\ result.mode # None /\ result.mode[1] = req.mode
        /\ result.path \in {"empty", "general", "search_error", "qna", "not_found",
                            "context_error", "fallback", "normal"}
        /\ ((\E i \in 1..Len(calls) : calls[i].note \in {"failed", "error"})
                => result.path = "search_error")
        /\ (result.path = "search_error"
                => result.answer = SEARCH_ERROR /\ result.sources = << >>)
        /\ (result.path = "context_error"
                => result.answer = CONTEXT_ERROR /\ result.sources = << >>)
        /\ (result.path = "not_found"
                => result.answer = NOT_FOUND /\ result.sources = << >>)
        /\ (result.path = "fallback"
                => result.answer # << >> /\ result.sources = << >>)

\* C8 witness: the index client could not be constructed and the request still
\* ended in the search-failure payload
C8_Witness ==
    /\ pc = "done"
    /\ result.kind = "payload"
    /\ result.path = "search_error"
    /\ \E i \in 1..Len(calls) : calls[i].op = "get" /\ calls[i].note = "failed"

(***************************************************************************)
(* Direct callers of the vector store (backend/scripts/ingest_doc.py,      *)
(* backend/debug_search.py): index_chunks, search_similar and              *)
(* reset_vector_store_cache called one after the other in one process      *)
(***************************************************************************)
RECURSIVE SeqsUpTo(_, _)
SeqsUpTo(S, n) ==
    IF n = 0 THEN {<< >>}
    ELSE SeqsUpTo(S, n - 1) \cup
         {Append(s, x) : s \in {q \in SeqsUpTo(S, n - 1) : Len(q) = n - 1}, x \in S}

\* a chunk written under an id that keeps no character when canonicalised
ForeignChunk == TextChunk("c4", <<"!">>, <<"misc">>)
SearchCatalog == {c \in ChunkCatalog : c.cid # "c2"} \cup {ForeignChunk}

SearchQueries == { << >>, <<"revenue">> }
SearchKs == {1, 2}
SearchRawIds == { << >>, <<"A", " ">>, <<"!">> }
\* the sources / doc_types filters tried with every doc_ids list
OtherFilters ==
    { [sources |-> << >>, doc_types |-> << >>],
      [sources |-> <<"table">>, doc_types |-> <<"report">>],
      [sources |-> <<"text", "table">>, doc_types |-> << >>] }
SearchFilters ==
    { [doc_ids |-> ids, sources |-> f.sources, doc_types |-> f.doc_types] :
        ids \in SeqsUpTo(SearchRawIds, MaxSearchIds), f \in OtherFilters }

\* the outcome of a direct call: the documents returned, or the exception raised
Returned(ds) ==
    [kind |-> "payload", path |-> "returned", answer |-> << >>, sources |-> ds,
     intent |-> None, mode |-> None]

InitSearch == Init

\* index_chunks(chunks): the handle lookup, then add_texts with the canonical ids
IndexChunks(cs, init) ==
    /\ pc = "idle"
    /\ cs # {}
    /\ Cardinality(Upsert(index, cs)) <= MaxChunks
    /\ \E g \in {get_vector_store(cache, handles, FALSE, FALSE, init)} :
          /\ cache' = g.cache
          /\ handles' = g.handles
          /\ index' = IF g.ok THEN Upsert(index, cs) ELSE index
    /\ UNCHANGED <<pc, req, calls, docs, tables, answer, gens, result, response,
                   threads, building, qna_cache,
                   builders, gate>>

\* reset_vector_store_cache()
ResetCache ==
    /\ pc = "idle"
    /\ cache # 0
    /\ cache' = reset_vector_store_cache(cache)
    /\ UNCHANGED <<index, handles, pc, req, calls, docs, tables, answer, gens, result,
                   response, threads, building, qna_cache,
                   builders, gate>>

\* search_similar(query, k, doc_ids, sources, doc_types), from call to return
Search(query, k, filters, env) ==
    /\ pc = "idle"
    /\ \E o \in {search_similar(index, cache, handles, query, k, filters.doc_ids,
                                 filters.sources, filters.doc_types, env)} :
          /\ cache' = o.cache
          /\ handles' = o.handles
          /\ calls' = o.calls
          /\ docs' = o.docs
          /\ result' = IF o.raised # "" THEN Raised(o.raised) ELSE Returned(o.docs)
    /\ req' = [NoReq EXCEPT !.entry = "search_similar", !.query = query, !.top_k = k,
                            !.doc_ids = filters.doc_ids, !.sources = filters.sources,
                            !.doc_types = filters.doc_types]
    /\ pc' = "searched"
    /\ UNCHANGED <<index, tables, answer, gens, response, threads, building, qna_cache,
                   builders, gate>>

\* the caller has taken the result
SearchDone ==
    /\ pc = "searched"
    /\ pc' = "idle"
    /\ req' = NoReq
    /\ calls' = << >>
    /\ docs' = << >>
    /\ result' = NoResult
    /\ UNCHANGED <<index, cache, handles, tables, answer, gens, response, threads,
                   building, qna_cache, builders, gate>>

NextSearch ==
    \/ \E cs \in SUBSET SearchCatalog, init \in InitOutcomes : IndexChunks(cs, init)
    \/ ResetCache
    \/ \E query \in SearchQueries, k \in SearchKs, filters \in SearchFilters,
          env \in SearchEnvs : Search(query, k, filters, env)
    \/ SearchDone

SpecSearch == InitSearch /\ [][NextSearch]_vars

(***************************************************************************)
(* Properties of direct searches (specification SpecSearch)                *)
(***************************************************************************)
\* the handle lookups with reload = True, and the searches, of the last call
ReloadCalls == {i \in 1..Len(calls) : calls[i].op = "get" /\ calls[i].reload}
FaultedSearches == {i \in SearchCalls : calls[i].note = "fault"}

\* C3: search_similar called with a doc_ids filter returns only chunks whose
\* canonical stored doc_id is the canonical form of one of the requested ids,
\* on the native-filter path, the application-code path and the retry path.
C3_OnlyRequestedDocs ==
    (pc = "searched" /\ req.doc_ids # << >> /\ result.kind = "payload") =>
        \A i \in 1..Len(docs) : sanitize_doc_id(docs[i].doc_id) \in RequestedIds

\* C9: once a similarity search raised a recognised storage fault, search_similar
\* rebuilds the client once, retries the search once, and returns -- an empty
\* list when the rebuild or the retried search fails -- without raising.
C9_FaultHealedOrEmpty ==
    (pc = "searched" /\ FaultedSearches # {}) =>
        /\ result.kind = "payload"
        /\ Cardinality(ReloadCalls) = 1
        /\ Cardinality({i \in SearchCalls : \E j \in ReloadCalls : j < i}) <= 1
        /\ ((\E j \in ReloadCalls : calls[j].note = "failed")
            \/ calls[Len(calls)].note = "fault") => docs = << >>

(***************************************************************************)
(* Concurrent callers of the client cache.  get_vector_store and           *)
(* reset_vector_store_cache take no lock, so callers on different threads  *)
(* interleave between any two statements.                                  *)
(***************************************************************************)
MaxThreads == 2
Threads == 1..MaxThreads

\* a caller that is not inside a call; handle 0 stands for no handle
Idle ==
    [op |-> "", at |-> "idle", reload |-> FALSE, force_recreate |-> FALSE,
     handle |-> 0, error |-> ""]

\* the variables of the request pipeline, which no cache call touches
pipeline == <<index, pc, req, calls, docs, tables, answer, gens, result, response,
              qna_cache, builders, gate>>

At(t, where) == threads[t].at = where
Goto(t, where) == threads' = [threads EXCEPT ![t].at = where]
ShouldReload(t) == threads[t].force_recreate \/ threads[t].reload

InitThreads ==
    /\ index = {}
    /\ cache = 0
    /\ handles = 0
    /\ pc = "idle"
    /\ req = NoReq
    /\ calls = << >>
    /\ docs = << >>
    /\ tables = NoTables
    /\ answer = << >>
    /\ gens = << >>
    /\ result = NoResult
    /\ response = NoResult
    /\ threads = [t \in Threads |-> Idle]
    /\ building = {}
    /\ qna_cache = NoQna
    /\ gate = NoGate
    /\ bundle = NoBundle
    /\ build = NoBuild
    /\ intents = << >>
    /\ primary = None
    /\ doc_key = NoDocKey

\* a thread calls get_vector_store(reload=..., force_recreate=...)
CallGet(t, reload, force_recreate) ==
    /\ At(t, "idle")
    /\ threads' = [threads EXCEPT ![t] = [Idle EXCEPT !.op = "get", !.at = "check_reload",
                                                      !.reload = reload,
                                                      !.force_recreate = force_recreate]]
    /\ UNCHANGED <<cache, handles, building, pipeline>>

\* `if should_reload and key in _vectordb_cache:`
CheckReload(t) ==
    /\ At(t, "check_reload")
    /\ Goto(t, IF ShouldReload(t) /\ cache # 0 THEN "delete" ELSE "check_hit")
    /\ UNCHANGED <<cache, handles, building, pipeline>>

\* `del _vectordb_cache[key]`: KeyError when another thread removed the entry
DeleteEntry(t) ==
    /\ At(t, "delete")
    /\ IF cache # 0
       THEN /\ cache' = 0
            /\ Goto(t, "check_hit")
       ELSE /\ threads' = [threads EXCEPT ![t].at = "raised", ![t].error = "KeyError"]
            /\ UNCHANGED cache
    /\ UNCHANGED <<handles, building, pipeline>>

\* `if not force_recreate and key in _vectordb_cache:`
CheckHit(t) ==
    /\ At(t, "check_hit")
    /\ Goto(t, IF ~threads[t].force_recreate /\ cache # 0 THEN "return_cached"
               ELSE "construct")
    /\ UNCHANGED <<cache, handles, building, pipeline>>

\* `return _vectordb_cache[key]`: KeyError when another thread removed the entry
ReturnCached(t) ==
    /\ At(t, "return_cached")
    /\ threads' = IF cache # 0
                  THEN [threads EXCEPT ![t].at = "returned", ![t].handle = cache]
                  ELSE [threads EXCEPT ![t].at = "raised", ![t].error = "KeyError"]
    /\ UNCHANGED <<cache, handles, building, pipeline>>

\* the Chroma constructor is entered
BeginConstruct(t) ==
    /\ At(t, "construct")
    /\ building' = building \cup {t}
    /\ Goto(t, "constructing")
    /\ UNCHANGED <<cache, handles, pipeline>>

\* the Chroma constructor returns a client, or fails twice (HTTPException 500)
EndConstruct(t, init) ==
    /\ At(t, "constructing")
    /\ building' = building \ {t}
    /\ IF init = "ok"
       THEN /\ handles' = FreshHandle(handles)
            /\ threads' = [threads EXCEPT ![t].at = "publish",
                                          ![t].handle = FreshHandle(handles)]
       ELSE /\ threads' = [threads EXCEPT ![t].at = "raised", ![t].error = "HTTP500"]
            /\ UNCHANGED handles
    /\ UNCHANGED <<cache, pipeline>>

\* `_vectordb_cache[key] = vectordb; return vectordb`
Publish(t) ==
    /\ At(t, "publish")
    /\ cache' = threads[t].handle
    /\ Goto(t, "returned")
    /\ UNCHANGED <<handles, building, pipeline>>

\* a thread calls reset_vector_store_cache()
CallReset(t) ==
    /\ At(t, "idle")
    /\ threads' = [threads EXCEPT ![t] = [Idle EXCEPT !.op = "reset", !.at = "reset_check"]]
    /\ UNCHANGED <<cache, handles, building, pipeline>>

\* `if _vectordb_cache:`
ResetCheck(t) ==
    /\ At(t, "reset_check")
    /\ Goto(t, IF cache # 0 THEN "clear" ELSE "returned")
    /\ UNCHANGED <<cache, handles, building, pipeline>>

\* `_vectordb_cache.clear()`
ResetClear(t) ==
    /\ At(t, "clear")
    /\ cache' = 0
    /\ Goto(t, "returned")
    /\ UNCHANGED <<handles, building, pipeline>>

\* the caller has taken the handle or the exception
CallDone(t) ==
    /\ threads[t].at \in {"returned", "raised"}
    /\ threads' = [threads EXCEPT ![t] = Idle]
    /\ UNCHANGED <<cache, handles, building, pipeline>>

NextCache ==
    \/ \E t \in Threads, reload \in BOOLEAN, force \in BOOLEAN : CallGet(t, reload, force)
    \/ \E t \in Threads : CheckReload(t)
    \/ \E t \in Threads : DeleteEntry(t)
    \/ \E t \in Threads : CheckHit(t)
    \/ \E t \in Threads : ReturnCached(t)
    \/ \E t \in Threads : BeginConstruct(t)
    \/ \E t \in Threads, init \in InitOutcomes : EndConstruct(t, init)
    \/ \E t \in Threads : Publish(t)
    \/ \E t \in Threads : CallReset(t)
    \/ \E t \in Threads : ResetCheck(t)
    \/ \E t \in Threads : ResetClear(t)
    \/ \E t \in Threads : CallDone(t)

SpecCache == InitThreads /\ [][NextCache]_vars

\* C10: rebuilding the cached client is serialized: at no time are two
\* constructions of the client in progress, and every handle a caller obtains
\* is one whose construction had completed.
C10_RebuildSerialized ==
    /\ Cardinality(building) <= 1
    /\ \A t \in Threads :
          (threads[t].op = "get" /\ threads[t].at = "returned") =>
              /\ threads[t].handle \in 1..MaxHandles
              /\ t \notin building

(***************************************************************************)
(* The Q&A-pair cache: rag.py, _load_qna_pairs_for_doc                     *)
(*                                                                         *)
(* Documents are the directories under ingested/, told apart by a number.  *)
(***************************************************************************)
QNA_CACHE_MAX_SIZE == 100
MaxQnaDocs == 102   \* documents under ingested/ that are ever looked up
QnaDocIds == 1..MaxQnaDocs

\* ingested/<doc_id>/text.json as the lookup finds it: absent, not parseable,
\* or holding one question/answer pair
QnaFile(doc_id) ==
    IF doc_id % 3 = 0 THEN "missing" ELSE IF doc_id % 3 = 1 THEN "unreadable" ELSE "pairs"

\* the pairs _QNA_PATTERN extracts from the file of the document
qna_pairs_of(doc_id) ==
    IF QnaFile(doc_id) = "pairs" THEN <<[question |-> "q", answer |-> doc_id]>> ELSE << >>

\* _load_qna_pairs_for_doc on the cache c: the cache it leaves and the pairs it returns
load_qna_pairs_for_doc(c, doc_id) ==
    LET kept == IF Cardinality(DOMAIN c) > QNA_CACHE_MAX_SIZE THEN << >> ELSE c
    IN  IF doc_id \in DOMAIN kept
        THEN [cache |-> kept, returned |-> kept[doc_id]]
        ELSE [cache |-> [d \in DOMAIN kept \cup {doc_id} |->
                            IF d = doc_id THEN qna_pairs_of(doc_id) ELSE kept[d]],
              returned |-> qna_pairs_of(doc_id)]

\* the documents a lookup is made for: the first and the last of the cached ones and
\* the first that is not cached (the function looks at an id only to test its
\* membership in the cache)
QnaLookups(c) ==
    LET Ends(S) == {d \in S : (\A e \in S : d <= e) \/ (\A e \in S : e <= d)}
    IN  Ends(DOMAIN c) \cup {d \in QnaDocIds \ DOMAIN c : \A e \in QnaDocIds \ DOMAIN c : d <= e}

\* _find_best_qna_answer_from_docs asks for the pairs of a document
LoadQnaPairs(doc_id) ==
    /\ doc_id \in QnaLookups(qna_cache.cache)
    /\ qna_cache' = load_qna_pairs_for_doc(qna_cache.cache, doc_id)
    /\ UNCHANGED <<index, cache, handles, pc, req, calls, docs, tables, answer, gens,
                   result, response, threads, building, builders, gate>>

NextQna ==
    \E doc_id \in QnaDocIds : LoadQnaPairs(doc_id)

SpecQna == Init /\ [][NextQna]_vars

\* C11: the per-document Q&A-pair cache never holds more entries than its
\* configured maximum.
C11_QnaCacheBounded ==
    Cardinality(DOMAIN qna_cache.cache) <= QNA_CACHE_MAX_SIZE

\* a lookup found the cache over its maximum and emptied it before loading
C11_Cleared ==
    /\ Cardinality(DOMAIN qna_cache.cache) = 1
    /\ \E d \in DOMAIN qna_cache.cache : d > QNA_CACHE_MAX_SIZE

(***************************************************************************)
(* Chunk builders: chunking.py.  Intent tags                               *)
(***************************************************************************)
MaxIntents == 3     \* length of a tag list handed to _select_primary_intent

\* the tags in the order Python compares their names; "other" is a tag that
\* _INTENT_PRIORITY does not know
IntentTags ==
    <<"financial", "general", "identity", "installation", "other", "reference",
      "safety", "troubleshooting">>

\* _INTENT_PRIORITY.get(x, 0)
INTENT_PRIORITY(x) ==
    CASE x \in {"troubleshooting", "safety"} -> 5
      [] x = "installation" -> 4
      [] x \in {"financial", "identity"} -> 3
      [] x = "reference" -> 2
      [] x = "general" -> 1
      [] OTHER -> 0

\* the sort key (priority, name) as one number: tuples compare lexicographically
IntentKey(x) ==
    INTENT_PRIORITY(x) * (Len(IntentTags) + 1)
        + (CHOOSE i \in 1..Len(IntentTags) : IntentTags[i] = x)

\* the first element of a list sorted by a key other than the one of the code
select_first_listed(tags) ==
    IF tags = << >> THEN "general" ELSE tags[1]

\* _select_primary_intent: sorted(intents, key=(priority, name), reverse=True)[0]
select_primary_intent(tags) ==
    IF tags = << >> THEN "general"
    ELSE SortPairsDesc([i \in 1..Len(tags) |-> [k |-> IntentKey(tags[i]), v |-> tags[i]]])[1].v

\* the state in which nothing has been asked of the server
ServerIdle ==
    /\ index = {}
    /\ cache = 0
    /\ handles = 0
    /\ pc = "idle"
    /\ req = NoReq
    /\ calls = << >>
    /\ docs = << >>
    /\ tables = NoTables
    /\ answer = << >>
    /\ gens = << >>
    /\ result = NoResult
    /\ response = NoResult
    /\ threads = NoThreads
    /\ building = {}
    /\ qna_cache = NoQna
    /\ gate = NoGate

server == <<index, cache, handles, pc, req, calls, docs, tables, answer, gens, result,
            response, threads, building, qna_cache, gate>>

InitIntent ==
    /\ ServerIdle
    /\ bundle = NoBundle
    /\ build = NoBuild
    /\ intents \in SeqsUpTo(Range(IntentTags), MaxIntents)
    /\ primary = None
    /\ doc_key = NoDocKey

\* _select_primary_intent is called with the list
SelectPrimaryIntent ==
    /\ primary = None
    /\ primary' = select_primary_intent(intents)
    /\ UNCHANGED <<server, bundle, build, intents, doc_key>>

NextIntent ==
    SelectPrimaryIntent

SpecIntent == InitIntent /\ [][NextIntent]_vars

\* the tags of the list that have the highest priority
TopTags(tags) ==
    {x \in Range(tags) : \A y \in Range(tags) : INTENT_PRIORITY(y) <= INTENT_PRIORITY(x)}

\* C14: the primary intent depends on the set of tags only: every list of the
\* same tags, in any order and with any repetition, yields the tag returned,
\* and the empty list yields "general".
C14_PrimaryIntentOfSet ==
    primary # None =>
        /\ \A tags \in SeqsUpTo(Range(intents), MaxIntents) :
              Range(tags) = Range(intents) => select_primary_intent(tags) = primary
        /\ (intents = << >> => primary = "general")

\* the tag was selected from a list that names two tags of equal priority,
\* the one that is returned not listed first
C14_Witness ==
    /\ primary # None
    /\ Cardinality(TopTags(intents)) >= 2
    /\ intents[1] # primary

\* C15: the primary intent is a tag of the highest priority, and among several
\* of them the one whose name comes first alphabetically.
C15_AlphabeticalTieBreak ==
    (primary # None /\ intents # << >>) =>
        /\ primary \in TopTags(intents)
        /\ \A x \in TopTags(intents) : IntentKey(primary) <= IntentKey(x)

(***************************************************************************)
(* Chunk builders: chunking.py.  Texts                                     *)
(*                                                                         *)
(* A text is a sequence of tokens [w, n]: the word (or literal, or repeated *)
(* character) w, taking n characters.  A token cut by a slice keeps w and   *)
(* the characters left, and is then no longer the whole word.               *)
(***************************************************************************)
MAX_CHUNK_CHARS == 1200
MaxItems == 2       \* text blocks, tables and images of a bundle, each
MaxRuns == 2        \* runs of the ingestion script

Tok(w, n) == [w |-> w, n |-> n]
LF == Tok("LF", 1)
SP == Tok(" ", 1)

\* len(s)
RECURSIVE Chars(_)
Chars(s) == IF s = << >> THEN 0 ELSE Head(s).n + Chars(Tail(s))

\* s[:k]
RECURSIVE Cut(_, _)
Cut(s, k) ==
    IF s = << >> \/ k <= 0 THEN << >>
    ELSE IF Head(s).n <= k THEN <<Head(s)>> \o Cut(Tail(s), k - Head(s).n)
         ELSE <<Tok(Head(s).w, k)>>

\* sep.join(parts)
RECURSIVE Join(_, _)
Join(parts, sep) ==
    IF parts = << >> THEN << >>
    ELSE IF Len(parts) = 1 THEN parts[1]
         ELSE parts[1] \o sep \o Join(Tail(parts), sep)

\* _normalize_whitespace: runs of spaces collapsed, the ends stripped
normalize_whitespace(text) ==
    LET Stripped(one, solid) ==
            IF solid = {} THEN << >>
            ELSE SubSeq(one, CHOOSE i \in solid : \A j \in solid : i <= j,
                             CHOOSE i \in solid : \A j \in solid : j <= i)
    IN  Stripped([i \in 1..Len(text) |-> IF text[i].w = " " THEN SP ELSE text[i]],
              {i \in 1..Len(text) : text[i].w # " "})

\* _has_meaningful_text: three word characters in a row
has_meaningful_text(s) ==
    \E i \in 1..Len(s) : s[i].w \notin {" ", "LF", "q:", "|", "..."} /\ s[i].n >= 3

\* the keyword of each intent, as the regular expressions find it in lower case
IntentKeywords ==
    [troubleshooting |-> Tok("error", 5), safety |-> Tok("warning", 7),
     installation |-> Tok("install", 7), identity |-> Tok("name", 4),
     financial |-> Tok("price", 5), reference |-> Tok("spec", 4)]

\* _extract_intent_and_entities: the intent list and the primary intent
extract_intent_and_entities(text, section) ==
    LET lower(s) == [i \in 1..Len(s) |->
                        IF s[i] = Tok("Error", 5) THEN Tok("error", 5) ELSE s[i]]
        Listed(intents_) ==
            [intent |-> intents_, primary_intent |-> select_primary_intent(intents_)]
        Of(matched) ==
            Listed(IF matched = {} THEN <<"general">>
                   ELSE Prefix(SelectSeqBy(<<"troubleshooting", "safety", "installation",
                                             "identity", "financial", "reference">>,
                                           matched), 5))
    IN  Of({t \in DOMAIN IntentKeywords :
               IntentKeywords[t] \in Range(lower(text) \o <<SP>> \o lower(section))})

\* list(current_intent_set): the tags of a set in the order the run iterates it
ListOfSet(S, order) == SelectSeqBy(order, S)

\* the iteration orders a run may see
SetOrders ==
    {IntentTags, [i \in 1..Len(IntentTags) |-> IntentTags[Len(IntentTags) + 1 - i]]}

\* _group_blocks_semantically: a group is closed
close_group(st, order) ==
    Append(st.chunks,
           [blocks |-> st.cur, section |-> st.section,
            primary_intent |-> select_primary_intent(ListOfSet(st.intents, order))])

\* a length test that lets every block into the running group
never_too_long(current_length, block_len) == FALSE

\* is_too_long: adding the block would take the running group past the maximum
exceeds_max(current_length, block_len) ==
    current_length + block_len > MAX_CHUNK_CHARS

\* an intent test that does not look at the priority of the last block
priority_ignored(current_primary, block_primary) == FALSE

\* the priority drop: the last block of the running group is about troubleshooting
\* or safety and the primary intent of the next block is not
priority_dropped(current_primary, block_primary) ==
    /\ current_primary \in {"troubleshooting", "safety"}
    /\ block_primary \notin {"troubleshooting", "safety"}

\* _group_blocks_semantically: one pass of the loop, for the block b with the
\* normalised content and the cached intents block_meta; last_primary is the
\* cached primary intent of the last block of the running group
group_step(st, b, content, block_meta, last_primary, order) ==
    LET block_intent_set == Range(block_meta.intent)
        block_len == Chars(content)
        is_qna == Tok("q:", 2) \in Range(content)
        is_new_section == b.section # st.section /\ st.cur # << >>
        is_major_heading == b.heading = "H1"
        is_too_long == exceeds_max(st.len, block_len)
        intent_changed ==
            /\ st.cur # << >>
            /\ \/ /\ st.intents # {}
                  /\ block_intent_set # {}
                  /\ st.intents \cap block_intent_set = {}
               \/ priority_dropped(last_primary, block_meta.primary_intent)
        should_break == is_new_section \/ is_too_long \/ is_major_heading
                            \/ intent_changed \/ is_qna
        Add(st1) ==
            [chunks |-> st1.chunks, cur |-> Append(st1.cur, b),
             len |-> st1.len + block_len, section |-> b.section,
             intents |-> st1.intents \cup block_intent_set]
    IN  IF content = << >> \/ ~has_meaningful_text(content) THEN st
        ELSE Add(IF should_break /\ st.cur # << >>
                 THEN [chunks |-> close_group(st, order), cur |-> << >>, len |-> 0,
                       section |-> st.section, intents |-> {}]
                 ELSE st)

\* _group_blocks_semantically: the loop over the blocks
RECURSIVE group_loop(_, _, _)
group_loop(st, blocks, order) ==
    IF blocks = << >> THEN st
    ELSE LET Meta(x) == extract_intent_and_entities(normalize_whitespace(x.content),
                                                    x.section)
         IN  group_loop(group_step(st, Head(blocks), normalize_whitespace(Head(blocks).content),
                                   Meta(Head(blocks)),
                                   IF st.cur = << >> THEN "general"
                                   ELSE Meta(st.cur[Len(st.cur)]).primary_intent,
                                   order),
                        Tail(blocks), order)

\* _group_blocks_semantically
group_blocks_semantically(all_blocks, order) ==
    LET Leftover(last) == IF last.cur # << >> THEN close_group(last, order) ELSE last.chunks
    IN  Leftover(group_loop([chunks |-> << >>, cur |-> << >>, len |-> 0,
                             section |-> << >>, intents |-> {}], all_blocks, order))

\* the cut of the code when full_content is longer than the maximum
truncate_past_max(full_content, marker) ==
    IF Chars(full_content) > MAX_CHUNK_CHARS
    THEN Cut(full_content, MAX_CHUNK_CHARS) \o <<LF, marker>>
    ELSE full_content

\* if len(full_content) > _MAX_CHUNK_CHARS: full_content[:_MAX_CHUNK_CHARS - 50] + marker
truncate(full_content, marker) ==
    IF Chars(full_content) > MAX_CHUNK_CHARS
    THEN Cut(full_content, MAX_CHUNK_CHARS - 50) \o <<LF, marker>>
    ELSE full_content

TEXT_MARKER == Tok("...[cut content]...", 21)
TABLE_MARKER == Tok("...[cut table]...", 19)

\* _format_chunk_content: the content and the metadata of a group; full is
\* full_content as assembled, before the cut
format_chunk_content(group) ==
    LET Part(b) ==
            (IF b.block_type = "warning" THEN <<Tok("(!)", 2), LF>>
             ELSE IF b.block_type = "note" THEN <<Tok("(i)", 2), LF>> ELSE << >>)
            \o b.content
        pages == {group.blocks[i].page : i \in 1..Len(group.blocks)}
        Made(section, semantic_meta, full_content) ==
            [content |-> truncate(full_content, TEXT_MARKER), full |-> full_content,
             section |-> section, primary_intent |-> semantic_meta.primary_intent,
             page |-> CHOOSE p \in pages : \A q \in pages : p <= q]
        Assembled(section, semantic_meta) ==
            Made(section, semantic_meta,
                 Join((IF "safety" \in Range(semantic_meta.intent)
                       THEN <<<<Tok("[caution]", 16)>>>>
                       ELSE IF "troubleshooting" \in Range(semantic_meta.intent)
                            THEN <<<<Tok("[fix]", 15)>>>>
                            ELSE << >>)
                      \o [i \in 1..Len(group.blocks) |-> Part(group.blocks[i])], <<LF>>))
        Sectioned(section) ==
            Assembled(section,
                      extract_intent_and_entities(
                          Join([i \in 1..Len(group.blocks) |-> group.blocks[i].content],
                               <<LF>>),
                          section))
        Named(named) ==
            Sectioned(IF Chars(named) > 50 THEN Cut(named, 47) \o <<Tok("...", 3)>>
                      ELSE named)
    IN  Named(IF group.section = << >> THEN <<Tok("General", 7)>> ELSE group.section)

\* the chunk id is never told apart from that of a fingerprint seen in this build
never_seen(content_hash, seen_hashes) == FALSE

\* if content_hash in seen_hashes: continue
seen_before(content_hash, seen_hashes) == content_hash \in seen_hashes

\* a Chunk whose id is numbered with the run that built it
chunk_numbered(source, key, page, content, full, primary_intent, section) ==
    [cid |-> [doc |-> <<"A">>, kind |-> source, key |-> key, run |-> build.runs],
     doc_id |-> <<"A">>,
     doc_type |-> "manual", source |-> source, page |-> page, content |-> content,
     full |-> full, primary_intent |-> primary_intent, section |-> section]

\* a Chunk; key is what the id holds after the doc_id
Chunk(source, key, page, content, full, primary_intent, section) ==
    [cid |-> [doc |-> <<"A">>, kind |-> source, key |-> key], doc_id |-> <<"A">>,
     doc_type |-> "manual", source |-> source, page |-> page, content |-> content,
     full |-> full, primary_intent |-> primary_intent, section |-> section]

\* text_items_to_chunks, from `for group in grouped_chunks` on; md5 of the
\* fingerprint stands for the fingerprint it is computed from, and seen_hashes
\* holds those of the groups before this one
text_items_to_chunks(grouped_chunks) ==
    LET Built(f) ==
            LET Hash(i) == f[i].content
                               \o <<Tok("|", 1), Tok(f[i].primary_intent, 0), Tok("|", 1)>>
                               \o f[i].section
                Blank(i) == normalize_whitespace(f[i].content) = << >>
                Chunks(kept) ==
                    [n \in 1..Len(kept) |->
                        Chunk("text", Hash(kept[n]), f[kept[n]].page, f[kept[n]].content,
                              f[kept[n]].full, f[kept[n]].primary_intent,
                              f[kept[n]].section)]
            IN  Chunks(SelectSeqBy([i \in 1..Len(f) |-> i],
                                   {i \in 1..Len(f) :
                                       /\ ~Blank(i)
                                       /\ ~seen_before(Hash(i),
                                               {Hash(j) : j \in {k \in 1..(i - 1) :
                                                                    ~Blank(k)}})}))
    IN  Built([i \in 1..Len(grouped_chunks) |-> format_chunk_content(grouped_chunks[i])])

(***************************************************************************)
(* Chunk builders: tables and images                                       *)
(***************************************************************************)
\* _generate_table_semantic_rows
generate_table_semantic_rows(table) ==
    LET Parts(row, kept) ==
            [i \in 1..Len(kept) |->
                (IF kept[i] <= Len(table.columns) THEN table.columns[kept[i]]
                 ELSE <<Tok("Col", 4)>>)
                \o <<Tok("=", 1)>> \o row[kept[i]]]
        Cells(row) ==
            Parts(row, SelectSeqBy([j \in 1..Len(row) |-> j],
                                   {j \in 1..Len(row) :
                                       row[j] # << >> /\ Chars(row[j]) <= 100}))
        RowParts(row) == Cells([j \in 1..Len(row) |-> normalize_whitespace(row[j])])
        Lines(parts) ==
            Join([i \in 1..Len(parts) |-> Join(Prefix(parts[i], 5), <<Tok(" | ", 3)>>)]
                 \o (IF Len(table.rows) > 15 THEN <<<<Tok("... more", 20)>>>> ELSE << >>),
                 <<LF>>)
        Sampled(parts) == Lines(SelectSeqBy(parts, Range(parts) \ {<< >>}))
    IN  IF table.rows = << >> \/ table.columns = << >> THEN << >>
        ELSE Sampled([i \in 1..Len(Prefix(table.rows, 15)) |-> RowParts(table.rows[i])])

\* table_items_to_chunks without the tables that have neither rows nor summary
table_chunks_with_data(table_items) ==
    LET Chunks(kept) ==
            [i \in 1..Len(kept) |->
                Chunk("table", <<kept[i].id>>, kept[i].page, kept[i].summary,
                      kept[i].summary, "general", << >>)]
    IN  Chunks(SelectSeqBy(table_items, {t \in Range(table_items) :
                                            t.rows # << >> \/ t.summary # << >>}))

\* table_items_to_chunks: one chunk for each table
table_items_to_chunks(table_items) ==
    LET Made(item, summary, category, unified_content, content) ==
            Chunk("table", <<item.id>>, item.page, content, unified_content,
                  extract_intent_and_entities(
                      item.name \o <<LF>> \o summary \o <<LF>> \o content,
                      category).primary_intent,
                  << >>)
        Cutted(item, summary, category, unified_content) ==
            Made(item, summary, category, unified_content,
                 truncate(unified_content, TABLE_MARKER))
        Parts(item, summary, category, cols, semantic_rows) ==
            Cutted(item, summary, category,
                   Join((IF item.name # << >> THEN <<<<Tok("[table] ", 2)>> \o item.name>>
                         ELSE << >>)
                        \o (IF category # <<Tok("general", 7)>>
                            THEN <<<<Tok("category: ", 8)>> \o category>> ELSE << >>)
                        \o (IF summary # << >> THEN <<summary>> ELSE << >>)
                        \o (IF item.columns # << >> /\ Len(item.columns) <= 10
                               /\ cols # << >>
                            THEN <<<<Tok("columns: ", 9)>> \o Join(cols, <<Tok(", ", 2)>>)>>
                            ELSE << >>)
                        \o (IF semantic_rows # << >>
                            THEN <<<<LF, Tok("table data:", 12), LF>> \o semantic_rows>>
                            ELSE IF summary = << >>
                                 THEN <<<<Tok("table (no details)", 29)>>>>
                                 ELSE << >>),
                        <<LF>>))
        Summed(item, stripped) ==
            Parts(item,
                  IF Chars(stripped) > 300 THEN Cut(stripped, 297) \o <<Tok("...", 3)>>
                  ELSE stripped,
                  IF item.category = << >> THEN <<Tok("general", 7)>> ELSE item.category,
                  SelectSeqBy(item.columns, Range(item.columns) \ {<< >>}),
                  generate_table_semantic_rows(item))
    IN  [i \in 1..Len(table_items) |->
            Summed(table_items[i], normalize_whitespace(table_items[i].summary))]

\* image_items_to_chunks: one chunk for each image with a meaningful caption
image_items_to_chunks(images) ==
    LET Made(item, content, formatted_content) ==
            Chunk("image", <<item.id>>, item.page, formatted_content, formatted_content,
                  extract_intent_and_entities(content, <<Tok("Image", 5)>>).primary_intent,
                  << >>)
        Formatted(item, content) ==
            Made(item, content,
                 <<Tok("[Image Info]", 15), LF, Tok("Path: ", 6)>> \o item.file_path
                 \o <<LF, Tok("Page: ", 6), Tok("page", 1), LF, Tok("Description: ", 13)>>
                 \o content)
        Kept(captioned) ==
            [i \in 1..Len(captioned) |->
                Formatted(captioned[i], normalize_whitespace(captioned[i].caption))]
    IN  Kept(SelectSeqBy(images,
                         {item \in Range(images) :
                             has_meaningful_text(normalize_whitespace(item.caption))}))

(***************************************************************************)
(* Bundles                                                                 *)
(***************************************************************************)
TextBlock(content, section, heading, block_type) ==
    [content |-> content, section |-> section, page |-> 1, heading |-> heading,
     block_type |-> block_type]

BlockCatalog ==
    { TextBlock(<<Tok("Error", 5), SP, Tok("text", 4)>>, <<Tok("guide", 5)>>, "", "normal"),
      TextBlock(<<Tok("text", 4)>>, <<Tok("guide", 5)>>, "H1", "note"),
      TextBlock(<<Tok("x", 1300)>>, <<Tok("guide", 5)>>, "", "normal"),
      TextBlock(<<Tok(" ", 2), Tok("ab", 2)>>, <<Tok("guide", 5)>>, "", "normal"),
      TextBlock(<<Tok("warning", 7), SP, Tok("price", 5)>>, <<Tok("s", 60)>>, "", "warning"),
      TextBlock(<<Tok("q:", 2), SP, Tok("name", 4)>>, << >>, "", "normal"),
      TextBlock(<<Tok("price", 5)>>, <<Tok("s", 60)>>, "", "normal") }

TableItem(id, name, summary, category, columns, rows) ==
    [id |-> Tok(id, 2), name |-> name, summary |-> summary, category |-> category,
     columns |-> columns, rows |-> rows, page |-> 2]

TableCatalog ==
    { TableItem("t1", <<Tok("prices", 6)>>, <<Tok("price", 5), SP, Tok("list", 4)>>,
                <<Tok("finance", 7)>>, <<<<Tok("item", 4)>>, <<Tok("cost", 4)>>>>,
                << <<<<Tok("pen", 3)>>, <<Tok("9", 1)>>, <<Tok("x", 101)>>>>, << >> >>),
      TableItem("t2", << >>, << >>, << >>, << >>, << >>),
      TableItem("t3", << >>, <<Tok("y", 400)>>, << >>, <<<<Tok("c", 1)>>>>,
                [i \in 1..16 |-> <<<<Tok("z", 100)>>>>]) }

ImageItem(id, caption) ==
    [id |-> Tok(id, 2), caption |-> caption, file_path |-> <<Tok("a.png", 5)>>, page |-> 3]

ImageCatalog ==
    { ImageItem("i1", <<Tok("error", 5), SP, Tok("screen", 6)>>),
      ImageItem("i2", << >>),
      ImageItem("i3", <<Tok("x", 1300)>>) }

\* the lists of distinct items (an item id occurs once in a bundle)
DistinctUpTo(S, n) ==
    {s \in SeqsUpTo(S, n) : \A i, j \in 1..Len(s) : s[i] = s[j] => i = j}

\* the bundles an ingestion may leave under ingested/<doc_id>/
Bundles ==
    {[NoBundle EXCEPT !.texts = t] : t \in SeqsUpTo(BlockCatalog, MaxItems)}
    \cup {[NoBundle EXCEPT !.tables = t] : t \in DistinctUpTo(TableCatalog, MaxItems)}
    \cup {[NoBundle EXCEPT !.images = t] : t \in DistinctUpTo(ImageCatalog, MaxItems)}

(***************************************************************************)
(* Ingestion: scripts/ingest_doc.py                                        *)
(***************************************************************************)
\* the ingestion pipeline (scripts.run_ingestion) rewrites the files of the document
WriteBundle(b) ==
    /\ build.runs < MaxRuns
    /\ b # bundle
    /\ bundle' = b
    /\ UNCHANGED <<server, build, intents, primary, doc_key>>

\* ingest_doc.main: the chunk builders run on the bundle and index_chunks writes
\* what they built.  init = "fail": the script cannot open the collection.
IngestDoc(order, init) ==
    /\ build.runs < MaxRuns
    /\ LET Indexed(grouped_chunks, doc_chunks) ==
               /\ index' = IF doc_chunks # << >> /\ init = "ok"
                            THEN Upsert(index, Range(doc_chunks)) ELSE index
               /\ build' = [runs |-> build.runs + 1, of |-> bundle,
                            groups |-> grouped_chunks, chunks |-> doc_chunks,
                            indexed |-> doc_chunks # << >> /\ init = "ok",
                            before |-> index,
                            prior |-> IF build.runs > 0 /\ build.of = bundle
                                      THEN Some([groups |-> build.groups,
                                                 chunks |-> build.chunks,
                                                 indexed |-> build.indexed])
                                      ELSE Absent]
           Built(grouped_chunks) ==
               Indexed(grouped_chunks,
                       (IF grouped_chunks = << >> THEN << >>
                        ELSE text_items_to_chunks(grouped_chunks))
                       \o table_items_to_chunks(bundle.tables)
                       \o image_items_to_chunks(bundle.images))
       IN  Built(group_blocks_semantically(
                     SelectSeqBy(bundle.texts,
                                 {t \in Range(bundle.texts) : has_meaningful_text(t.content)}),
                     order))
    /\ UNCHANGED <<cache, handles, pc, req, calls, docs, tables, answer, gens, result,
                   response, threads, building, qna_cache, gate, bundle, intents,
                   primary, doc_key>>

InitBuild ==
    /\ ServerIdle
    /\ bundle \in Bundles
    /\ build = NoBuild
    /\ intents = << >>
    /\ primary = None
    /\ doc_key = NoDocKey

NextBuild ==
    \E order \in SetOrders, init \in InitOutcomes : IngestDoc(order, init)

\* the chunk builders run, again and again, on a bundle that does not change
SpecBuild == InitBuild /\ [][NextBuild]_vars

NextReingest ==
    \/ \E b \in Bundles : WriteBundle(b)
    \/ \E order \in SetOrders, init \in InitOutcomes : IngestDoc(order, init)

\* a document is ingested, and ingested again after its bundle was rewritten
SpecReingest == Init /\ [][NextReingest]_vars

(***************************************************************************)
(* Re-ingestion and the chunk builders: properties                         *)
(***************************************************************************)
\* the chunks of kind source among those of the last build, in build order
BuiltOf(source) == SelectSeqBy(build.chunks, {c \in Range(build.chunks) : c.source = source})

\* C12: after an ingestion that wrote to the index, the index holds for the doc_id
\* of the document exactly the chunks built from the newest bundle; no chunk of an
\* earlier ingestion that the new build lacks is left
C12_ReingestReplaces ==
    build.indexed =>
        {d \in index : d.doc_id = sanitize_doc_id(<<"A">>)}
            = {StoredDoc(c) : c \in Range(build.chunks)}

\* C13: the builders run again on the unchanged bundle give the same groups and the
\* same chunks (ids, fingerprints, contents), and writing them again leaves the
\* index as it was
C13_RebuildIdentical ==
    build.prior # Absent =>
        /\ build.chunks = build.prior[1].chunks
        /\ build.groups = build.prior[1].groups
        /\ (build.indexed /\ build.prior[1].indexed => index = build.before)

C13_Witness ==
    /\ build.prior # Absent
    /\ Len(build.chunks) >= 2
    /\ build.indexed
    /\ build.prior[1].indexed

\* C16: the table chunks of a build are one for each table of the bundle, in the
\* order of the tables, whatever the tables hold
C16_OneChunkPerTable ==
    build.runs > 0 =>
        /\ Len(BuiltOf("table")) = Len(build.of.tables)
        /\ \A i \in 1..Len(build.of.tables) :
              BuiltOf("table")[i].cid.key = <<build.of.tables[i].id>>

C16_Witness ==
    /\ build.runs > 0
    /\ Len(build.of.tables) = 2
    /\ \E i \in 1..2 : /\ build.of.tables[i].rows = << >>
                       /\ build.of.tables[i].columns = << >>
                       /\ build.of.tables[i].summary = << >>
                       /\ build.of.tables[i].name = << >>

\* C17: no two text chunks of one build have the same content, primary intent and
\* section
C17_OneChunkPerFingerprint ==
    \A i, j \in 1..Len(BuiltOf("text")) :
        i # j =>
            <<BuiltOf("text")[i].content, BuiltOf("text")[i].primary_intent,
              BuiltOf("text")[i].section>>
            # <<BuiltOf("text")[j].content, BuiltOf("text")[j].primary_intent,
                BuiltOf("text")[j].section>>

\* two groups of the build had the same fingerprint and one chunk was built
C17_Witness ==
    /\ build.runs > 0
    /\ Len(build.groups) = 2
    /\ Len(BuiltOf("text")) = 1

MarkerOf(source) == IF source = "text" THEN TEXT_MARKER ELSE TABLE_MARKER

\* C19: a text or table chunk whose assembled content is longer than the maximum
\* ends with the marker and is, marker included, within the maximum; one whose
\* assembled content is within the maximum has it unchanged, without a marker
C19_TruncatedWithMarker ==
    \A c \in Range(build.chunks) :
        c.source \in {"text", "table"} =>
            IF Chars(c.full) > MAX_CHUNK_CHARS
            THEN /\ c.content # << >>
                 /\ c.content[Len(c.content)] = MarkerOf(c.source)
                 /\ Chars(c.content) <= MAX_CHUNK_CHARS
            ELSE /\ c.content = c.full
                 /\ MarkerOf(c.source) \notin Range(c.content)

C19_Witness ==
    \E c \in Range(build.chunks) :
        /\ c.source = "table"
        /\ Chars(c.full) > MAX_CHUNK_CHARS
        /\ c.content # c.full

\* C20: every source of a generated answer is a document that passed the gate: its
\* confidence is at least the threshold and, when the query is longer than 10
\* characters, it shares a non-stopword token with the query or its confidence is
\* at least 0.75
C20_SourcesPassedGate ==
    (pc = "done" /\ result.kind = "payload" /\ result.path = "normal") =>
        /\ Len(result.sources) = Len(docs)
        /\ \A i \in 1..Len(docs) :
              /\ result.sources[i].chunk_id = docs[i].doc.cid
              /\ docs[i].ai >= MIN_SCORE_THRESHOLD
              /\ (StrLen(req.query) > MIN_QUERY_LEN =>
                     \/ keyword_overlap_count(req.query, docs[i].doc.content) >= 1
                     \/ docs[i].ai >= HIGH_SCORE)

\* a generated answer to a long query with a source that shares no token with it
C20_Witness ==
    /\ pc = "done"
    /\ result.kind = "payload"
    /\ result.path = "normal"
    /\ StrLen(req.query) > MIN_QUERY_LEN
    /\ Len(result.sources) = 2
    /\ \E i \in 1..Len(docs) :
          keyword_overlap_count(req.query, docs[i].doc.content) = 0

(***************************************************************************)
(* The relevance gate, the Q&A match and the re-ranking: properties        *)
(***************************************************************************)
\* the request being served has been through the re-ranking
Gated == gate # NoGate

\* the candidates of the request that passed the relevance gate
PassedGate == filter_relevant_docs(req.query, gate.ranked, MIN_SCORE_THRESHOLD)

\* C21: the not-found answer is returned only when the gate rejected every
\* candidate and the Q&A match, looked for after that, gave nothing; an authored
\* answer is returned only for a pair scoring at least 0.75, which is above the
\* threshold of the gate; no Q&A match is looked for when a candidate passed
C21_QnaAfterGate ==
    /\ (pc = "done" /\ result.kind = "payload" /\ result.path = "not_found" =>
           /\ Gated
           /\ PassedGate = << >>
           /\ gate.qna # << >>
           /\ find_best_qna_answer(gate.ranked, gate.qna[1].best) = << >>)
    /\ (pc = "done" /\ result.kind = "payload" /\ result.path = "qna" =>
           /\ Gated
           /\ PassedGate = << >>
           /\ gate.qna # << >>
           /\ gate.qna[1].best # << >>
           /\ gate.qna[1].best[1].score >= HIGH_SCORE
           /\ HIGH_SCORE > MIN_SCORE_THRESHOLD)
    /\ (Gated /\ PassedGate # << >> => gate.qna = << >>)

\* the gate rejected every candidate, and the best pair of the Q&A match scored
\* between the two thresholds: the caller is told that nothing was found
C21_Witness ==
    /\ pc = "done"
    /\ result.path = "not_found"
    /\ gate.ranked # << >>
    /\ gate.qna # << >>
    /\ gate.qna[1].best # << >>
    /\ gate.qna[1].best[1].score >= MIN_SCORE_THRESHOLD
    /\ gate.qna[1].best[1].score < HIGH_SCORE

(***************************************************************************)
(* Document ids at write and at read time                                  *)
(***************************************************************************)
MaxIdLen == 3
\* the document ids callers supply: upper and lower case, a space, a character
\* the canonical form drops
RawIds == SeqsUpTo({"A", "b", " ", "!"}, MaxIdLen)

\* the entry points that take the doc_ids of a search
ReadEntries == {"ask", "answer_question", "search_similar"}

\* the doc_ids list whose values search_similar filters on, for the list the
\* caller of the entry point supplied
read_path_ids(entry, doc_ids) ==
    SanitizeNonEmpty(IF entry = "ask" THEN aq_sanitized_doc_ids(NormalizeNonEmpty(doc_ids))
                     ELSE IF entry = "answer_question" THEN aq_sanitized_doc_ids(doc_ids)
                     ELSE doc_ids)

InitIds ==
    /\ ServerIdle
    /\ bundle = NoBundle
    /\ build = NoBuild
    /\ intents = << >>
    /\ primary = None
    /\ doc_key \in {[NoDocKey EXCEPT !.raw = r] : r \in RawIds}

\* /upload with the doc_id, up to the write of index_chunks: a blank doc_id is
\* refused, else the chunks carry _normalize_id(doc_id) and index_chunks stores
\* sanitize_doc_id of that
UploadId ==
    /\ doc_key.stored = Absent
    /\ Strip(doc_key.raw) # << >>
    /\ doc_key' = [doc_key EXCEPT
                      !.stored = Some(sanitize_doc_id(normalize_id(doc_key.raw)))]
    /\ UNCHANGED <<server, bundle, build, intents, primary>>

\* a search for the document through one of the entry points, up to the filter
\* of search_similar
ReadId(entry) ==
    /\ doc_key.filter = Absent
    /\ doc_key' = [doc_key EXCEPT !.entry = entry,
                          !.filter = Some(read_path_ids(entry, <<doc_key.raw>>))]
    /\ UNCHANGED <<server, bundle, build, intents, primary>>

NextIds ==
    \/ UploadId
    \/ \E entry \in ReadEntries : ReadId(entry)

\* a document id is written and searched for
SpecIds == InitIds /\ [][NextIds]_vars

FaultsDetected == {i \in (Len(calls) + 1)..Len(calls') : calls'[i].op = "get" /\ calls'[i].reload}

\* C23: a step that writes to the index, or in which search_similar detects a
\* storage fault, does not leave the handle that was cached before it in the
\* cache, so that the next lookup constructs a fresh one
C23_InvalidatedAfterWriteOrFault ==
    [][/\ (index' # index /\ cache # 0 => cache' # cache)
       /\ (Len(calls') > Len(calls) /\ FaultsDetected # {} /\ cache # 0 => cache' # cache)]_vars

(***************************************************************************)
(* The filters of a direct search                                          *)
(***************************************************************************)
\* the similarity searches of the last call that carried a native filter
NativeCalls == {i \in SearchCalls : calls[i].native}

\* the values the doc_ids of the last call reduce to
ReducedIds == SanitizeNonEmpty(req.doc_ids)

\* the chunk d satisfies the filters the last call supplied
SatisfiesFilters(d) ==
    /\ (req.doc_ids # << >> => sanitize_doc_id(d.doc_id) \in RequestedIds)
    /\ (req.sources # << >> => d.source \in Range(req.sources))
    /\ (req.doc_types # << >> => d.doc_type \in Range(req.doc_types))

\* C24: search_similar hands the index a native filter only when every filter
\* field it was given reduces to one value; when a field has several values every
\* search it issues is unfiltered and oversized; either way it returns at most k
\* chunks and each of them satisfies every filter it was given
C24_NativeFilterForSingleValues ==
    pc = "searched" =>
        /\ (NativeCalls # {} =>
               /\ (req.doc_ids # << >> => Len(ReducedIds) = 1)
               /\ (req.sources # << >> => Len(req.sources) = 1)
               /\ (req.doc_types # << >> => Len(req.doc_types) = 1))
        /\ (Len(ReducedIds) > 1 \/ Len(req.sources) > 1 \/ Len(req.doc_types) > 1 =>
               /\ NativeCalls = {}
               /\ \A i \in SearchCalls : calls[i].where = NoWhere /\ calls[i].k > req.top_k)
        /\ (result.kind = "payload" =>
               /\ Len(docs) <= req.top_k
               /\ \A i \in 1..Len(docs) : SatisfiesFilters(docs[i]))

(***************************************************************************)
(* Re-ranking on its own: the requests that have just been through the     *)
(* search, over every index of the catalog                                 *)
(***************************************************************************)
RerankQueries == { <<"revenue">>, <<"show", " ", "revenue", " ", "table">> }
RerankTopKs == {1, 2, 3}

\* answer_question has returned from search_similar, which met no storage error
InitRerank ==
    \E query \in RerankQueries, top_k \in RerankTopKs, cs \in SUBSET SearchCatalog :
        LET stored == {StoredDoc(c) : c \in cs}
            o == search_similar(stored, 0, 0, query, top_k * 3, << >>, << >>, << >>,
                                [init1 |-> "ok", s1 |-> "ok", s2 |-> "ok",
                                 init2 |-> "ok", s3 |-> "ok"])
        IN  /\ index = stored
            /\ cache = o.cache
            /\ handles = o.handles
            /\ pc = "rerank"
            /\ req = [NoReq EXCEPT !.entry = "answer_question", !.query = query,
                                   !.top_k = top_k, !.mode = "auto"]
            /\ calls = o.calls
            /\ docs = o.docs
            /\ tables = NoTables
            /\ answer = << >>
            /\ gens = << >>
            /\ result = NoResult
            /\ response = NoResult
            /\ threads = NoThreads
            /\ building = {}
            /\ qna_cache = NoQna
            /\ gate = NoGate
            /\ bundle = NoBundle
            /\ build = NoBuild
            /\ intents = << >>
            /\ primary = None
            /\ doc_key = NoDocKey

NextRerank ==
    \E reranker \in Rerankers, raws \in [1..Len(docs) -> RawScores] : Rerank(reranker, raws)

\* the re-ranking, the relevance gate and the Q&A match of one request
SpecRerank == InitRerank /\ [][NextRerank]_vars

\* C25: without a cross-encoder, or when its predict fails, _rerank_documents
\* returns the top_k candidates of highest keyword score (all of them when there
\* are fewer), in order of non-increasing keyword score, each with a confidence
\* of at least MIN_SCORE_THRESHOLD
C25_LexicalFallback ==
    (Gated /\ gate.reranker \in {"none", "fail"}) =>
        /\ Len(gate.ranked) = IF Len(gate.raw_docs) <= req.top_k THEN Len(gate.raw_docs)
                              ELSE req.top_k
        /\ \A i \in 1..Len(gate.ranked) :
              /\ gate.ranked[i].doc \in Range(gate.raw_docs)
              /\ gate.ranked[i].kw = keyword_score(req.query, gate.ranked[i].doc.content)
              /\ gate.ranked[i].ai >= MIN_SCORE_THRESHOLD
              /\ \A j \in 1..Len(gate.ranked) :
                    /\ (i < j => gate.ranked[i].kw >= gate.ranked[j].kw)
                    /\ (i # j => gate.ranked[i].doc # gate.ranked[j].doc)
              /\ \A d \in Range(gate.raw_docs) :
                    d \notin {gate.ranked[j].doc : j \in 1..Len(gate.ranked)} =>
                        keyword_score(req.query, d.content) <= gate.ranked[i].kw

\* predict failed, the candidates were put in another order than the search
\* gave them, and one of them was cut off
C25_Witness ==
    /\ Gated
    /\ gate.reranker = "fail"
    /\ Len(gate.raw_docs) = 3
    /\ Len(gate.ranked) = 2
    /\ gate.ranked[1].doc # gate.raw_docs[1]
    /\ gate.ranked[1].kw > gate.ranked[2].kw

(***************************************************************************)
(* Semantic grouping: properties of the groups of the last run             *)
(***************************************************************************)
HighPriority == {"troubleshooting", "safety"}

\* the cached metadata of a block: intent_cache[id(block)]
BlockMeta(b) == extract_intent_and_entities(normalize_whitespace(b.content), b.section)

\* the intent set a running group has accumulated over the blocks bs
IntentsOf(bs) == UNION {Range(BlockMeta(bs[i]).intent) : i \in 1..Len(bs)}

\* the blocks of all groups, in the order of the groups
RECURSIVE GroupBlocks(_)
GroupBlocks(groups) ==
    IF groups = << >> THEN << >> ELSE Head(groups).blocks \o GroupBlocks(Tail(groups))

\* the summed length of the normalised contents of the blocks bs
RECURSIVE GroupLength(_)
GroupLength(bs) ==
    IF bs = << >> THEN 0
    ELSE Chars(normalize_whitespace(Head(bs).content)) + GroupLength(Tail(bs))

\* the loop keeps a block: its normalised content is not empty and is meaningful
Meaningful(b) ==
    /\ normalize_whitespace(b.content) # << >>
    /\ has_meaningful_text(normalize_whitespace(b.content))

\* C26: in every group of a run, a block that follows blocks whose accumulated
\* intents are led by safety or troubleshooting has itself a primary intent of
\* safety or troubleshooting, so no block of ordinary intent comes after a safety
\* or troubleshooting block of the same group.
C26_NoOrdinaryAfterHighPriority ==
    \A k \in 1..Len(build.groups) :
        LET bs == build.groups[k].blocks
        IN  /\ \A j \in 2..Len(bs) :
                   select_primary_intent(ListOfSet(IntentsOf(SubSeq(bs, 1, j - 1)), IntentTags))
                       \in HighPriority
                   => BlockMeta(bs[j]).primary_intent \in HighPriority
            /\ \A i, j \in 1..Len(bs) :
                   i < j /\ BlockMeta(bs[i]).primary_intent \in HighPriority
                   => BlockMeta(bs[j]).primary_intent \in HighPriority

\* C26 witness: a run closed a group after a safety block because the next block,
\* of the same section and sharing an intent with it, has an ordinary primary intent
C26_Witness ==
    /\ Len(build.groups) = 2
    /\ LET last == build.groups[1].blocks[Len(build.groups[1].blocks)]
           next == build.groups[2].blocks[1]
       IN  /\ BlockMeta(last).primary_intent \in HighPriority
           /\ BlockMeta(next).primary_intent \notin HighPriority
           /\ next.section = last.section
           /\ next.heading # "H1"
           /\ Tok("q:", 2) \notin Range(next.content)
           /\ IntentsOf(build.groups[1].blocks) \cap Range(BlockMeta(next).intent) # {}
           /\ GroupLength(build.groups[1].blocks \o <<next>>) <= MAX_CHUNK_CHARS

\* C28: the groups of a run, one after the other, are the meaningful blocks of the
\* bundle in their order, each block once; the blocks of a group have one section;
\* a group longer than the maximum is a single block.
C28_GroupsAreConsecutiveRuns ==
    build.runs > 0 =>
        /\ GroupBlocks(build.groups)
               = SelectSeqBy(build.of.texts, {b \in Range(build.of.texts) : Meaningful(b)})
        /\ \A k \in 1..Len(build.groups) :
               LET bs == build.groups[k].blocks
               IN  /\ bs # << >>
                   /\ \A i \in 1..Len(bs) : bs[i].section = bs[1].section
                   /\ GroupLength(bs) > MAX_CHUNK_CHARS => Len(bs) = 1

\* C28 witness: a run left out a block without meaningful content and made a group
\* of the single block that is longer than the maximum
C28_Witness ==
    /\ build.runs > 0
    /\ \E i \in 1..Len(build.of.texts) : ~Meaningful(build.of.texts[i])
    /\ \E k \in 1..Len(build.groups) :
           /\ GroupLength(build.groups[k].blocks) > MAX_CHUNK_CHARS
           /\ Len(build.groups[k].blocks) = 1

(***************************************************************************)
(* The generation chain of a request                                       *)
(***************************************************************************)
\* an invoked provider handed back a text that is not empty
GaveText(g) == g.kind = "text" /\ g.text # << >>

TableCandidates == SelectSeqBy(docs, {d \in Range(docs) : d.doc.source = "table"})

\* the first table candidates of a category and of a role, in context order
FirstOfCategory(c) ==
    {i \in 1..Len(TableCandidates) :
        /\ TableCandidates[i].doc.category = c
        /\ \A j \in 1..(i - 1) : TableCandidates[j].doc.category # c}
FirstOfRole(c) ==
    {i \in 1..Len(TableCandidates) :
        /\ TableCandidates[i].doc.role = c
        /\ \A j \in 1..(i - 1) : TableCandidates[j].doc.role # c}

\* a generated answer went through the replacement of the markers
MarkersReplaced == pc = "done" /\ result.path = "normal" /\ answer # << >>

\* C29: in a generated answer, a marker of the code n given to a table candidate
\* is replaced by the markup of the n-th table candidate of the context; a category
\* marker is replaced by the markup of the first table candidate of that category
\* or, when there is none, of the first table candidate of that role.
C29_MarkersReplacedByTheirTable ==
    MarkersReplaced =>
        \A i \in 1..Len(answer) :
            /\ answer[i].t = "TBL" =>
                   \A n \in 1..Len(TableCandidates) :
                       NumStr(n) = answer[i].s =>
                           result.answer[i] = Div(safe_html_of(TableCandidates[n].doc))
            /\ answer[i].t = "CAT" =>
                   /\ \A n \in FirstOfCategory(answer[i].s) :
                          result.answer[i] = Div(safe_html_of(TableCandidates[n].doc))
                   /\ FirstOfCategory(answer[i].s) = {} =>
                          \A n \in FirstOfRole(answer[i].s) :
                              result.answer[i] = Div(safe_html_of(TableCandidates[n].doc))

\* C29 witness: the context holds two table candidates of different markup, and
\* the answer had the marker of the second and a category marker that only a role
\* resolves
C29_Witness ==
    /\ MarkersReplaced
    /\ Len(TableCandidates) = 2
    /\ safe_html_of(TableCandidates[1].doc) # safe_html_of(TableCandidates[2].doc)
    /\ \E i \in 1..Len(answer) :
           answer[i] = Tbl("2") /\ result.answer[i] = Div(safe_html_of(TableCandidates[2].doc))
    /\ \E i \in 1..Len(answer) :
           /\ answer[i].t = "CAT"
           /\ FirstOfCategory(answer[i].s) = {}
           /\ FirstOfRole(answer[i].s) # {}
           /\ result.answer[i].t = "DIV"

(***************************************************************************)
(* The payloads of answer_question against the response schema of /ask     *)
(***************************************************************************)
\* AskResponse: answer: str, sources: List[dict], intent: str, mode: str
FitsAskResponse(r) ==
    /\ r.kind = "payload"
    /\ \A i \in 1..Len(r.sources) :
           DOMAIN r.sources[i] = {"doc_id", "page", "source", "chunk_id"}
    /\ r.intent # None
    /\ r.mode # None

\* C30: whatever path answer_question took, the payload it returned has a string
\* answer, a list of dicts as sources, a string intent and a string mode, and /ask
\* builds its response from it without failing.
C30_PayloadsFitSchema ==
    pc = "done" =>
        /\ FitsAskResponse(result)
        /\ req.entry = "ask" => response.kind = "payload"

\* the same for the requests whose query is not blank
PayloadsFitSchemaUnlessBlank ==
    (pc = "done" /\ ~IsBlank(req.query)) =>
        /\ FitsAskResponse(result)
        /\ req.entry = "ask" => response.kind = "payload"

====
